---- MODULE Spec2Model ----
(***************************************************************************)
(* Regional Sales Dashboard: the retrieval / caching pipeline of           *)
(* GoogleSheetsClient (src/google_sheets_client.py).                       *)
(*                                                                         *)
(* Time is a natural number of seconds.  Local computation and the remote   *)
(* calls take no time at this scale; time passes in time.sleep and between *)
(* two passes.  A thread is one caller of the client's methods.            *)
(***************************************************************************)
EXTENDS Integers, Sequences, FiniteSets, TLC

-----------------------------------------------------------------------------
(* Program constants *)

\* google_sheets_client.py:30
CACHE_DURATION == 14400
\* google_sheets_client.py:31
REQUEST_DELAY == 5
\* google_sheets_client.py:115  (max_retries = 3 in batch_get_all_sheet_data)
max_retries == 3
\* google_sheets_client.py:98   (min(3 ** attempt, 180))
BACKOFF_BASE == 3
BACKOFF_CAP == 180

(* Bounds of the model *)

\* time.time() at the first step (any value >= CACHE_DURATION: the clock is
\* epoch seconds, far above every delay of the program)
Epoch == 20000
\* full passes one thread runs, one after the other
MaxPasses == 3
\* distinct sheet contents the remote source can answer with
NumContents == 2
\* a time to live other than CACHE_DURATION that a caller hands to _cache_data
ShortTtl == 3600
\* clock steps between the direct calls of the cache methods
MaxTicks == 4
\* largest attempt number a caller hands to exponential_backoff directly
MaxAttempt == 6
\* largest number a field of a data dictionary holds
MaxField == 1

Threads == {"t1", "t2"}

Max(a, b) == IF a >= b THEN a ELSE b
Min(a, b) == IF a <= b THEN a ELSE b

RECURSIVE Pow(_, _)
Pow(b, e) == IF e = 0 THEN 1 ELSE b * Pow(b, e - 1)

-----------------------------------------------------------------------------
(* Static configuration: three of the sources of GOOGLE_SHEETS_CONFIG.  Two *)
(* share a spreadsheet id and a worksheet and differ in category; the one   *)
(* between them in the configuration has another id and no worksheet name.  *)

ConfigOrder == <<"vip_dashboard_my", "sales_velocity_my", "membership_dashboard_my">>

SheetKeys == {ConfigOrder[i] : i \in 1..Len(ConfigOrder)}

GOOGLE_SHEETS_CONFIG ==
    [k \in SheetKeys |->
        CASE k = "vip_dashboard_my" ->
                [id |-> "1CuaZL9s", worksheet_name |-> "MY", category |-> "vip"]
          [] k = "sales_velocity_my" ->
                [id |-> "1_KWf7wx", worksheet_name |-> "None", category |-> "velocity"]
          [] k = "membership_dashboard_my" ->
                [id |-> "1CuaZL9s", worksheet_name |-> "MY", category |-> "membership"]]

\* cache_key = f"sheet_data_{sheet_id}_{worksheet_name}_{category}"
CacheKeyOf(k) ==
    LET c == GOOGLE_SHEETS_CONFIG[k]
    IN  <<"sheet_data", c.id, c.worksheet_name, c.category>>

CacheKeys == {CacheKeyOf(k) : k \in SheetKeys}

\* sheets_by_id: the ids in order of first appearance, each with its sources
\* in configuration order; the pass walks the groups in that order.
RECURSIVE IdOrder(_)
IdOrder(keys) ==
    IF keys = <<>> THEN <<>>
    ELSE LET rest == IdOrder(SubSeq(keys, 1, Len(keys) - 1))
             id   == GOOGLE_SHEETS_CONFIG[keys[Len(keys)]].id
         IN  IF \E i \in 1..Len(rest) : rest[i] = id THEN rest ELSE Append(rest, id)

\* the order in which a pass works through the sources `keys` (a sub-sequence
\* of ConfigOrder)
RECURSIVE FlattenIn(_, _)
FlattenIn(ids, keys) ==
    IF ids = <<>> THEN <<>>
    ELSE SelectSeq(keys, LAMBDA k : GOOGLE_SHEETS_CONFIG[k].id = Head(ids))
            \o FlattenIn(Tail(ids), keys)

ProcessingOrder(keys) == FlattenIn(IdOrder(keys), keys)

\* TRUE when position p of order opens a new sheet_id group (the outer loop's
\* body starts)
StartsGroup(order, p) ==
    \/ p = 1
    \/ GOOGLE_SHEETS_CONFIG[order[p]].id # GOOGLE_SHEETS_CONFIG[order[p - 1]].id

-----------------------------------------------------------------------------
(* Values *)

\* Python's None
None == [none |-> TRUE]

\* A structured record as a parser returns it.  raw_data = 0 stands for the
\* empty mapping {}, raw_data = c > 0 for the data parsed from sheet content c.
Contents == 1..NumContents
Record(c) == [raw_data |-> c]
\* {'raw_data': {}, 'monthly_data': {}} and alike: what a parser returns when
\* the batched read gave nothing
EmptyParsed == Record(0)
\* the empty structure the orchestrator fills in itself
EmptyStructure == Record(0)
Payloads == {Record(c) : c \in 0..NumContents}

\* variant: every value read from the cache counts as a miss
Truthy_Never(v) == FALSE

\* Python truthiness of a value read from the cache: None is falsy, a mapping
\* with keys (every record has the key raw_data) is truthy.
Truthy(v) == v # None

\* Exceptions of the remote library.  A message is the set of the tokens it
\* contains, so that `"429" in str(e)` is membership.
RateLimitMsg == {"429", "RATE_LIMIT_EXCEEDED"}
ServerErrorMsg == {"500"}
TimeoutMsg == {"timed out"}
APIError(msg) == [cls |-> "APIError", msg |-> msg]
OtherError(msg) == [cls |-> "Exception", msg |-> msg]
ReadErrors == {APIError(RateLimitMsg), APIError(ServerErrorMsg), OtherError(TimeoutMsg)}

IsRateLimitMessage(msg) == "RATE_LIMIT_EXCEEDED" \in msg \/ "429" \in msg

-----------------------------------------------------------------------------
(* Cache Store: one JSON file per cache key *)

Absent == [file |-> "absent"]
\* opened with mode 'w' and not yet written: no complete JSON text
Partial == [file |-> "partial"]
Entry(data, timestamp, duration) ==
    [file |-> "json", data |-> data, timestamp |-> timestamp, duration |-> duration]

\* _get_cached_data: json.load of an incomplete file raises, which is caught
get_cached_data(files, cache_key, allow_expired, time) ==
    LET f == files[cache_key]
    IN  IF f.file = "absent" THEN None
        ELSE IF f.file = "partial" THEN None
        ELSE IF allow_expired \/ time - f.timestamp < CACHE_DURATION THEN f.data
        ELSE None

\* _cache_data, first half: open(cache_file, 'w') truncates the file
cache_open_w(files, cache_key) == [files EXCEPT ![cache_key] = Partial]

\* _cache_data, second half: json.dump of data, time.time() and duration
cache_dump(files, cache_key, data, duration, time) ==
    [files EXCEPT ![cache_key] = Entry(data, time, duration)]

\* variant: the files are left in place
clear_all_cache_Keeps(files) == files

\* clear_all_cache: os.remove of every .json file of the cache directory
clear_all_cache(files) == [ck \in DOMAIN files |-> Absent]

-----------------------------------------------------------------------------
(* Rate limiting and errors *)

\* _rate_limit_delay, lines 85-92: the time at which the caller goes on
rate_limit_wake(time, last_call) ==
    LET time_since_last == time - last_call
    IN  IF time_since_last < REQUEST_DELAY
        THEN time + (REQUEST_DELAY - time_since_last)
        ELSE time

\* variant: the delay is not capped
exponential_backoff_NoCap(attempt) == Pow(BACKOFF_BASE, attempt)

\* exponential_backoff: delay = min(3 ** attempt, 180)
exponential_backoff(attempt) == Min(Pow(BACKOFF_BASE, attempt), BACKOFF_CAP)

\* the classification of an exception caught in batch_get_all_sheet_data
ErrorTypeOf(e) ==
    IF e.cls = "APIError"
    THEN IF IsRateLimitMessage(e.msg) THEN "RATE_LIMIT" ELSE "API_ERROR"
    ELSE "GENERAL_ERROR"

\* variant: a rate-limit error is never retried
ShouldRetry_Never(e, attempt) == FALSE

\* variant: the retry loop allows one attempt more
ShouldRetry_OneMore(e, attempt) ==
    IsRateLimitMessage(e.msg) /\ e.cls = "APIError" /\ attempt < max_retries

\* variant: every error is retried while attempts are left
ShouldRetry_AnyError(e, attempt) == attempt < max_retries - 1

\* `if attempt < max_retries - 1` on a rate-limit error
ShouldRetry(e, attempt) ==
    ErrorTypeOf(e) = "RATE_LIMIT" /\ attempt < max_retries - 1

NoError == [error_type |-> "None", error_message |-> {}]
\* variant: nothing is recorded
record_error_Ignored(error_type, error_message) == NoError
\* _record_error
record_error(error_type, error_message) ==
    [error_type |-> error_type, error_message |-> error_message]
\* variant: the error of an earlier pass is kept
clear_errors_Keeps(err) == err
\* _clear_errors
clear_errors(err) == NoError
\* get_last_error_info
get_last_error_info(err) ==
    [error_type |-> err.error_type,
     error_message |-> err.error_message,
     is_rate_limit |-> err.error_type = "RATE_LIMIT"]

-----------------------------------------------------------------------------
(* State *)

VARIABLES
    now,                 \* time.time()
    cache,               \* the cache directory: cache key -> file
    last_api_call_time,  \* self.last_api_call_time
    last_error,          \* self.last_error_type, self.last_error_message
    sheets,              \* GOOGLE_SHEETS_CONFIG['sheets']: the configured keys, in order
    budget,              \* passes each thread is going to run
    pc,                  \* where each thread stands
    cur,                 \* position in ProcessingOrder of the source in work
    attempt,             \* loop variable of batch_get_all_sheet_data
    wake,                \* end of the current time.sleep
    all_data,            \* all_data of the pass in work or last returned
    passes,              \* passes returned, per thread
    pre,                 \* observed: the cache file as the source's strict read found it
    outcome,             \* observed: how each source of the pass ended
    probe,               \* observed: per source, was its entry fresh, was a remote call made
    batch,               \* observed: the current or last batch_get_all_sheet_data call
    gated,               \* observed: the thread left the gate since its last remote call
    calls,               \* observed: the most recent remote call
    gate_obs,            \* observed: the most recent leaving of the gate
    pass_fail,           \* observed: class of the latest failed read of the pass
    prev_fail,           \* observed: pass_fail of the pass before
    cw,                  \* cache callers: the _cache_data call in progress
    cr,                  \* cache callers: the _get_cached_data call that just returned
    ticks,               \* direct callers: clock steps / calls taken
    bo,                  \* direct callers: the exponential_backoff call that just returned
    obj,                 \* the GoogleSheetsClient() call: how it ended, self.client
    rf,                  \* observed: the refresh_data call that returned last
    mc,                  \* metric callers: the calculate_metric call that just returned
    cam,                 \* metric callers: the calculate_all_metrics_for_category call
    pz,                  \* parser callers: the parser call that returned
    ag,                  \* aggregation callers: the prepare_dashboard_data call that returned
    bg,                  \* batch callers: the batch_get_all_sheet_data call on given ranges
    gs,                  \* single-source callers: the get_sheet_data call that returned
    sch                  \* the refresh scheduler and the dashboard session that owns it

clientVars == <<last_api_call_time, last_error>>
threadVars == <<pc, cur, attempt, wake, all_data, passes>>
passObs == <<pre, outcome, probe, pass_fail, prev_fail>>
harnessVars == <<cw, cr, ticks, bo, obj, rf, mc, cam, pz, ag, bg, gs, sch>>
vars == <<now, cache, last_api_call_time, last_error, sheets, budget, pc, cur, attempt,
          wake, all_data, passes, pre, outcome, probe, batch, gated, calls, gate_obs,
          pass_fail, prev_fail, cw, cr, ticks, bo, obj, rf, mc, cam, pz, ag, bg, gs, sch>>

NoBatch ==
    [reads |-> 0, rate_limited |-> 0, open_failed |-> FALSE, returned |-> "no",
     error_type |-> "None", raised |-> "None", waits |-> 0]
NoCall == [any |-> FALSE, last_at |-> 0, gated |-> TRUE, gap_ok |-> TRUE, kind |-> "none"]
NoGate == [any |-> FALSE, last_left |-> 0, gap_ok |-> TRUE]
NoWrite == [busy |-> FALSE]
NoRead == [valid |-> FALSE]
NoProbe == [fresh |-> FALSE, remote |-> FALSE, opens |-> 0, read |-> FALSE]
NoRefresh == [returned |-> FALSE, quiet |-> FALSE, pass |-> 0, fetched |-> {}]
NoMetric == [valid |-> FALSE]
NoMetrics == [state |-> "idle"]
NoParse == [calls |-> 0]
NoAggregate == [valid |-> FALSE]
NoBatchGet == [valid |-> FALSE]
NoGet == [valid |-> FALSE]
\* no DataRefreshScheduler yet (scheduler_instance is None), no job in the
\* schedule, no loop thread, and st.session_state without a key in each session
Sessions == {"s1", "s2"}
NoScheduler ==
    [instance |-> FALSE, refresh_callback |-> "None", is_running |-> FALSE,
     scheduler_thread |-> 0, threads |-> <<>>, jobs |-> 0, starts |-> 0, stops |-> 0,
     session |-> [x \in Sessions |-> [scheduler_started |-> "absent", dashboards |-> 0, runs |-> 0]]]
NoBackoff == [valid |-> FALSE, attempt |-> 0, delay |-> 0]

\* what the cache directory may hold when the client is constructed: nothing, an
\* entry written just now, or one written CACHE_DURATION ago
InitialFiles ==
    {Absent, Entry(Record(1), Epoch, CACHE_DURATION),
     Entry(Record(1), Epoch - CACHE_DURATION, CACHE_DURATION)}

\* self.client = gspread.authorize(credentials)
Handle == [handle |-> TRUE]

\* where the credentials come from and what becomes of them
EnvCredentials == {"unset", "malformed", "valid"}
FileCredentials == {"missing", "invalid", "valid"}
Authorize == {"ok", "raises"}

\* variant: a failure to initialise is logged and not raised
initialize_client_Swallows(env, file, auth) ==
    [raised |-> FALSE,
     client |-> IF env = "valid" /\ auth = "ok" THEN Handle ELSE None]

\* initialize_client: the environment variable first, else credentials.json;
\* any exception sets self.client = None and is raised again
initialize_client(env, file, auth) ==
    LET loaded == IF env # "unset" THEN env = "valid" ELSE file = "valid"
        ok     == loaded /\ auth = "ok"
    IN  [raised |-> ~ok, client |-> IF ok THEN Handle ELSE None]

NotCalled == [ctor |-> "not_called", client |-> None]
Constructed == [ctor |-> "returned", client |-> Handle]

\* the fields of a client and what the threads and observers start from
InitFields ==
    /\ now = Epoch
    /\ last_api_call_time = 0
    /\ last_error = NoError
    /\ pc = [t \in Threads |-> "idle"]
    /\ cur = [t \in Threads |-> 1]
    /\ attempt = [t \in Threads |-> 0]
    /\ wake = [t \in Threads |-> 0]
    /\ all_data = [t \in Threads |-> [k \in SheetKeys |-> None]]
    /\ passes = [t \in Threads |-> 0]
    /\ pre = [t \in Threads |-> [k \in SheetKeys |-> Absent]]
    /\ outcome = [t \in Threads |-> [k \in SheetKeys |-> "none"]]
    /\ probe = [t \in Threads |-> [k \in SheetKeys |-> NoProbe]]
    /\ batch = [t \in Threads |-> NoBatch]
    /\ gated = [t \in Threads |-> FALSE]
    /\ calls = NoCall
    /\ gate_obs = NoGate
    /\ pass_fail = [t \in Threads |-> "None"]
    /\ prev_fail = [t \in Threads |-> "None"]
    /\ cw = NoWrite
    /\ cr = NoRead
    /\ ticks = 0
    /\ bo = NoBackoff
    /\ rf = NoRefresh
    /\ mc = NoMetric
    /\ cam = NoMetrics
    /\ pz = NoParse
    /\ ag = NoAggregate
    /\ bg = NoBatchGet
    /\ gs = NoGet
    /\ sch = NoScheduler

\* GoogleSheetsClient.__init__ has returned a client
InitCommon == InitFields /\ obj = Constructed

\* the cache directory holds files of configured sources only
InitialCaches(keys) ==
    {c \in [CacheKeys -> InitialFiles] :
        \A ck \in CacheKeys :
            (\A i \in 1..Len(keys) : CacheKeyOf(keys[i]) # ck) => c[ck] = Absent}

OneSource == SubSeq(ConfigOrder, 1, 1)

\* One thread: either one pass over all the sources, or MaxPasses passes, one
\* after the other, over a configuration of one source.
Init ==
    /\ InitCommon
    /\ \/ sheets = ConfigOrder /\ budget = [t \in Threads |-> IF t = "t1" THEN 1 ELSE 0]
       \/ sheets = OneSource
            /\ budget = [t \in Threads |-> IF t = "t1" THEN MaxPasses ELSE 0]
    /\ cache \in InitialCaches(sheets)

\* Two threads on one client, one pass each over a configuration of one source.
InitConc ==
    /\ InitCommon
    /\ sheets = OneSource
    /\ budget = [t \in Threads |-> 1]
    /\ cache \in InitialCaches(sheets)

-----------------------------------------------------------------------------
(* get_all_sheets_data_batch, one thread's steps *)

Order == ProcessingOrder(sheets)

Key(t) == Order[cur[t]]

LastSource(t) == cur[t] = Len(Order)

\* where the two loops go on after the source in work
NextPc(t) ==
    IF LastSource(t) THEN "idle"
    ELSE IF StartsGroup(Order, cur[t] + 1) THEN "g_gate" ELSE "cache_chk"

\* the end of the inner loop's body: next source, next group, or return all_data
FinishSource(t) ==
    /\ pc' = [pc EXCEPT ![t] = NextPc(t)]
    /\ attempt' = [attempt EXCEPT ![t] = 0]
    /\ batch' = [batch EXCEPT ![t] = NoBatch]
    /\ cur' = [cur EXCEPT ![t] = IF LastSource(t) THEN 1 ELSE @ + 1]
    /\ passes' = [passes EXCEPT ![t] = IF LastSource(t) THEN @ + 1 ELSE @]

\* time between two passes of a thread
IdleTimes(t) == IF passes[t] = 0 THEN {0} ELSE {1, CACHE_DURATION}

\* lines 760-783: _clear_errors(), all_data = {}, the grouping, the first group
StartPass(t) ==
    /\ obj.ctor = "returned"
    /\ pc[t] = "idle"
    /\ passes[t] < budget[t]
    /\ \E d \in IdleTimes(t) : now' = now + d
    /\ last_error' = clear_errors(last_error)
    /\ all_data' = [all_data EXCEPT ![t] = [k \in SheetKeys |-> None]]
    /\ cur' = [cur EXCEPT ![t] = 1]
    /\ pc' = [pc EXCEPT ![t] = "g_gate"]
    /\ pre' = [pre EXCEPT ![t] = [k \in SheetKeys |-> Absent]]
    /\ outcome' = [outcome EXCEPT ![t] = [k \in SheetKeys |-> "none"]]
    /\ probe' = [probe EXCEPT ![t] = [k \in SheetKeys |-> NoProbe]]
    /\ prev_fail' = [prev_fail EXCEPT ![t] = pass_fail[t]]
    /\ pass_fail' = [pass_fail EXCEPT ![t] = "None"]
    /\ UNCHANGED <<cache, last_api_call_time, sheets, budget, attempt, wake, passes, batch,
                   gated, calls, gate_obs, harnessVars>>

GatePcs == {"g_gate", "w_gate", "b_gate"}
SleepPcs == {"g_sleep", "w_sleep", "b_sleep"}
SleepOf(p) ==
    CASE p = "g_gate" -> "g_sleep" [] p = "w_gate" -> "w_sleep" [] p = "b_gate" -> "b_sleep"
AfterGate(p) ==
    CASE p = "g_sleep" -> "cache_chk" [] p = "w_sleep" -> "w_open" [] p = "b_sleep" -> "b_open"

\* _rate_limit_delay, lines 85-92: read the clock and last_api_call_time, then sleep
RateLimitDelayEnter(t) ==
    /\ pc[t] \in GatePcs
    /\ wake' = [wake EXCEPT ![t] = rate_limit_wake(now, last_api_call_time)]
    /\ pc' = [pc EXCEPT ![t] = SleepOf(pc[t])]
    /\ UNCHANGED <<now, cache, clientVars, sheets, budget, cur, attempt, all_data, passes,
                   passObs, batch, gated, calls, gate_obs, harnessVars>>

\* _rate_limit_delay, line 94: self.last_api_call_time = time.time() after the sleep
RateLimitDelayLeave(t) ==
    /\ pc[t] \in SleepPcs
    /\ now' = Max(now, wake[t])
    /\ last_api_call_time' = now'
    /\ pc' = [pc EXCEPT ![t] = AfterGate(pc[t])]
    /\ gated' = [gated EXCEPT ![t] = TRUE]
    /\ wake' = [wake EXCEPT ![t] = 0]
    /\ gate_obs' = [any |-> TRUE, last_left |-> now',
                    gap_ok |-> (~gate_obs.any \/ now' - gate_obs.last_left >= REQUEST_DELAY)]
    /\ UNCHANGED <<cache, last_error, sheets, budget, cur, attempt, all_data, passes,
                   passObs, batch, calls, harnessVars>>

\* an entry exists and is younger than the time to live of the cache
IsFresh(f, time) == f.file = "json" /\ time - f.timestamp < CACHE_DURATION

\* lines 793-803: the strict cache read of the source, and the hit
CheckCache(t) ==
    /\ pc[t] = "cache_chk"
    /\ LET k == Key(t)
           cached_data == get_cached_data(cache, CacheKeyOf(k), FALSE, now)
       IN  /\ pre' = [pre EXCEPT ![t][k] = cache[CacheKeyOf(k)]]
           /\ probe' = [probe EXCEPT ![t][k].fresh = IsFresh(cache[CacheKeyOf(k)], now)]
           /\ IF Truthy(cached_data)
              THEN /\ all_data' = [all_data EXCEPT ![t][k] = cached_data]
                   /\ outcome' = [outcome EXCEPT ![t][k] = "hit"]
                   /\ FinishSource(t)
              ELSE /\ pc' = [pc EXCEPT ![t] = "w_gate"]
                   /\ UNCHANGED <<all_data, outcome, cur, passes, attempt, batch>>
    /\ UNCHANGED <<now, cache, clientVars, sheets, budget, wake, pass_fail, prev_fail,
                   gated, calls, gate_obs, harnessVars>>

\* a call of the remote source, issued now, as the observers see it
RemoteCall(t, kind) ==
    /\ calls' = [any |-> TRUE, last_at |-> now, gated |-> gated[t],
                 gap_ok |-> (~calls.any \/ now - calls.last_at >= REQUEST_DELAY),
                 kind |-> kind]
    /\ gated' = [gated EXCEPT ![t] = FALSE]
    /\ probe' = [probe EXCEPT ![t][Key(t)] =
                    [@ EXCEPT !.remote = TRUE,
                              !.opens = IF kind = "open_by_key" THEN @ + 1 ELSE @,
                              !.read = @ \/ kind = "batch_get"]]
    /\ UNCHANGED now

\* what batch_get_all_sheet_data returns: {} or the blocks read
EmptyBatch == [empty |-> TRUE]
BatchResult(c) == [blocks |-> c]

\* a category parser on the batched result (`if not batch_result ...: return empty`)
process_data_batch(batch_result) ==
    IF batch_result = EmptyBatch THEN EmptyParsed ELSE Record(batch_result.blocks)

\* variant: a source whose worksheet cannot be opened gets a record with data
OnWorksheetNone_Data(ad, k) == [ad EXCEPT ![k] = Record(1)]

\* variant: a source whose worksheet cannot be opened gets no entry
OnWorksheetNone_NoEntry(ad, k) == ad

\* lines 807-816: the worksheet could not be opened
OnWorksheetNone(ad, k) == [ad EXCEPT ![k] = EmptyStructure]

\* lines 832-836: all_data[sheet_key] = {config, name, **data}
OnData(ad, k, data) == [ad EXCEPT ![k] = data]

\* batch_get_all_sheet_data returns to its parser, the parser to the pass, which
\* stores the data and goes on to cache it (lines 818-839)
BatchReturns(t, batch_result, b) ==
    LET k == Key(t)
        data == process_data_batch(batch_result)
    IN  /\ all_data' = [all_data EXCEPT ![t] = OnData(all_data[t], k, data)]
        /\ outcome' = [outcome EXCEPT ![t][k] =
                          IF batch_result = EmptyBatch THEN "fetch_failed" ELSE "live"]
        /\ batch' = [batch EXCEPT ![t] =
                        [b EXCEPT !.returned =
                            IF batch_result = EmptyBatch THEN "empty" ELSE "data"]]
        /\ pc' = [pc EXCEPT ![t] = "c_open"]

\* _get_worksheet returned None (its except clause, lines 965-967)
WorksheetNone(t) ==
    IF pc[t] \in {"w_open", "w_lookup"}
    THEN /\ all_data' = [all_data EXCEPT ![t] = OnWorksheetNone(all_data[t], Key(t))]
         /\ outcome' = [outcome EXCEPT ![t][Key(t)] = "open_failed"]
         /\ FinishSource(t)
    ELSE /\ BatchReturns(t, EmptyBatch,
                         [batch[t] EXCEPT !.open_failed = TRUE,
                                          !.error_type = last_error.error_type])
         /\ UNCHANGED <<cur, passes, attempt>>

\* _get_worksheet, line 960: self.client.open_by_key(sheet_id)
OpenByKey(t) ==
    /\ pc[t] \in {"w_open", "b_open"}
    /\ RemoteCall(t, "open_by_key")
    /\ \E ok \in BOOLEAN :
          IF ok
          THEN /\ pc' = [pc EXCEPT ![t] = IF pc[t] = "w_open" THEN "w_lookup" ELSE "b_lookup"]
               /\ UNCHANGED <<all_data, outcome, batch, cur, passes, attempt>>
          ELSE WorksheetNone(t)
    /\ UNCHANGED <<cache, clientVars, sheets, budget, wake, pre, pass_fail, prev_fail, gate_obs,
                   harnessVars>>

\* _get_worksheet, lines 961-964: sheet.worksheet(worksheet_name) or sheet.sheet1;
\* in the pass the parser then calls batch_get_all_sheet_data (attempt = 0)
WorksheetLookup(t) ==
    /\ pc[t] \in {"w_lookup", "b_lookup"}
    /\ RemoteCall(t, "worksheet")
    /\ \E ok \in BOOLEAN :
          IF ok
          THEN IF pc[t] = "w_lookup"
               THEN /\ pc' = [pc EXCEPT ![t] = "b_gate"]
                    /\ attempt' = [attempt EXCEPT ![t] = 0]
                    /\ batch' = [batch EXCEPT ![t] = NoBatch]
                    /\ UNCHANGED <<all_data, outcome, cur, passes>>
               ELSE /\ pc' = [pc EXCEPT ![t] = "b_read"]
                    /\ UNCHANGED <<all_data, outcome, batch, cur, passes, attempt>>
          ELSE WorksheetNone(t)
    /\ UNCHANGED <<cache, clientVars, sheets, budget, wake, pre, pass_fail, prev_fail, gate_obs,
                   harnessVars>>

\* batch_get_all_sheet_data, lines 139-154: the batched read answers
BatchGetOk(t) ==
    /\ pc[t] = "b_read"
    /\ RemoteCall(t, "batch_get")
    /\ \E c \in Contents :
          BatchReturns(t, BatchResult(c),
                       [batch[t] EXCEPT !.reads = @ + 1,
                                        !.error_type = last_error.error_type])
    /\ UNCHANGED <<cache, clientVars, sheets, budget, cur, attempt, wake, passes, pre, pass_fail,
                   prev_fail, gate_obs, harnessVars>>

\* batch_get_all_sheet_data, lines 156-172: the batched read raises
BatchGetRaises(t) ==
    /\ pc[t] = "b_read"
    /\ RemoteCall(t, "batch_get")
    /\ \E e \in ReadErrors :
          LET b == [batch[t] EXCEPT
                       !.reads = @ + 1,
                       !.rate_limited = IF ErrorTypeOf(e) = "RATE_LIMIT" THEN @ + 1 ELSE @,
                       !.error_type = ErrorTypeOf(e),
                       !.raised = ErrorTypeOf(e)]
          IN  /\ last_error' = record_error(ErrorTypeOf(e), e.msg)
              /\ pass_fail' = [pass_fail EXCEPT ![t] = ErrorTypeOf(e)]
              /\ IF ShouldRetry(e, attempt[t])
                 THEN /\ wake' = [wake EXCEPT ![t] = now + exponential_backoff(attempt[t])]
                      /\ pc' = [pc EXCEPT ![t] = "b_backoff"]
                      /\ batch' = [batch EXCEPT ![t] = b]
                      /\ UNCHANGED <<all_data, outcome>>
                 ELSE /\ BatchReturns(t, EmptyBatch, b)
                      /\ UNCHANGED wake
    /\ UNCHANGED <<cache, last_api_call_time, sheets, budget, cur, attempt, passes, pre, prev_fail,
                   gate_obs, harnessVars>>

\* exponential_backoff: time.sleep(delay), then `continue` with the next attempt
Backoff(t) ==
    /\ pc[t] = "b_backoff"
    /\ now' = Max(now, wake[t])
    /\ attempt' = [attempt EXCEPT ![t] = @ + 1]
    /\ pc' = [pc EXCEPT ![t] = "b_gate"]
    /\ wake' = [wake EXCEPT ![t] = 0]
    /\ batch' = [batch EXCEPT ![t].waits = @ + 1]
    /\ UNCHANGED <<cache, clientVars, sheets, budget, cur, all_data, passes, passObs,
                   gated, calls, gate_obs, harnessVars>>

\* _cache_data called at line 839: open(cache_file, 'w')
CacheOpenW(t) ==
    /\ pc[t] = "c_open"
    /\ cache' = cache_open_w(cache, CacheKeyOf(Key(t)))
    /\ pc' = [pc EXCEPT ![t] = "c_dump"]
    /\ UNCHANGED <<now, clientVars, sheets, budget, cur, attempt, wake, all_data, passes, passObs,
                   batch, gated, calls, gate_obs, harnessVars>>

\* _cache_data called at line 839: json.dump; the source is done
CacheDump(t) ==
    /\ pc[t] = "c_dump"
    /\ cache' = cache_dump(cache, CacheKeyOf(Key(t)), all_data[t][Key(t)], CACHE_DURATION, now)
    /\ FinishSource(t)
    /\ UNCHANGED <<now, clientVars, sheets, budget, wake, all_data, passObs, gated, calls,
                   gate_obs, harnessVars>>

Next ==
    \E t \in Threads :
        \/ StartPass(t)
        \/ RateLimitDelayEnter(t)
        \/ RateLimitDelayLeave(t)
        \/ CheckCache(t)
        \/ OpenByKey(t)
        \/ WorksheetLookup(t)
        \/ BatchGetOk(t)
        \/ BatchGetRaises(t)
        \/ Backoff(t)
        \/ CacheOpenW(t)
        \/ CacheDump(t)

Spec == Init /\ [][Next]_vars

\* A thread that is in a pass goes on: a sleep ends, a remote call answers or
\* raises, a file operation returns.
TwoSources == SubSeq(ConfigOrder, 1, 2)

\* One thread: one pass over two sources (of two spreadsheet ids), or MaxPasses
\* passes over one source.
InitLive ==
    /\ InitCommon
    /\ \/ sheets = TwoSources /\ budget = [t \in Threads |-> IF t = "t1" THEN 1 ELSE 0]
       \/ sheets = OneSource
            /\ budget = [t \in Threads |-> IF t = "t1" THEN MaxPasses ELSE 0]
    /\ cache \in InitialCaches(sheets)

SpecLive == InitLive /\ [][Next]_vars /\ WF_vars(Next)

-----------------------------------------------------------------------------
(* The Cache Store called directly: one caller writes (_cache_data), another  *)
(* reads (_get_cached_data) the file of one cache key, as two sessions or a   *)
(* script and a session do on the shared cache directory.                    *)

HarnessKey == CacheKeyOf(ConfigOrder[1])
Durations == {CACHE_DURATION, ShortTtl}
TickSteps == {1, ShortTtl - 1, CACHE_DURATION - ShortTtl}

InitCache ==
    /\ InitCommon
    /\ sheets = ConfigOrder
    /\ budget = [t \in Threads |-> 0]
    /\ cache = [ck \in CacheKeys |-> Absent]

passVars == <<last_api_call_time, last_error, sheets, budget, pc, cur, attempt, wake,
              all_data, passes, pre, outcome, probe, batch, gated, calls, gate_obs,
              pass_fail, prev_fail, obj, rf>>
metricVars == <<mc, cam>>
parseVars == <<pz, ag>>
callerVars == <<bg, gs, sch>>

\* _cache_data(cache_key, data, duration) up to open(cache_file, 'w')
CacheDataOpen ==
    /\ ~cw.busy
    /\ \E data \in {Record(c) : c \in Contents}, duration \in Durations :
          cw' = [busy |-> TRUE, data |-> data, duration |-> duration,
                 old |-> cache[HarnessKey]]
    /\ cache' = cache_open_w(cache, HarnessKey)
    /\ cr' = NoRead
    /\ UNCHANGED <<now, ticks, bo, passVars, metricVars, parseVars, callerVars>>

\* _cache_data: json.dump and the close of the file
CacheDataDump ==
    /\ cw.busy
    /\ cache' = cache_dump(cache, HarnessKey, cw.data, cw.duration, now)
    /\ cw' = NoWrite
    /\ cr' = NoRead
    /\ UNCHANGED <<now, ticks, bo, passVars, metricVars, parseVars, callerVars>>

\* _get_cached_data(cache_key, allow_expired) by the other caller
GetCachedData ==
    /\ \E allow_expired \in BOOLEAN :
          cr' = [valid |-> TRUE, allow_expired |-> allow_expired, at |-> now,
                 file |-> cache[HarnessKey],
                 ret |-> get_cached_data(cache, HarnessKey, allow_expired, now),
                 overlap |-> cw.busy,
                 before |-> IF cw.busy
                            THEN get_cached_data([cache EXCEPT ![HarnessKey] = cw.old],
                                                 HarnessKey, allow_expired, now)
                            ELSE None,
                 after |-> IF cw.busy THEN cw.data ELSE None]
    /\ UNCHANGED <<now, cache, cw, ticks, bo, passVars, metricVars, parseVars, callerVars>>

\* time passes between the calls
ClockStep ==
    /\ ticks < MaxTicks
    /\ \E d \in TickSteps : now' = now + d
    /\ ticks' = ticks + 1
    /\ cr' = NoRead
    /\ UNCHANGED <<cache, cw, bo, passVars, metricVars, parseVars, callerVars>>

NextCache == CacheDataOpen \/ CacheDataDump \/ GetCachedData \/ ClockStep

SpecCache == InitCache /\ [][NextCache]_vars

SpecConc == InitConc /\ [][Next]_vars

-----------------------------------------------------------------------------
(* The construction of the client, then one pass over one source by the    *)
(* caller, if it got a client.                                              *)

InitAuth ==
    /\ InitFields
    /\ obj = NotCalled
    /\ sheets = OneSource
    /\ budget = [t \in Threads |-> IF t = "t1" THEN 1 ELSE 0]
    /\ cache \in InitialCaches(sheets)

\* GoogleSheetsClient(): __init__ sets the fields and calls initialize_client
Construct ==
    /\ obj.ctor = "not_called"
    /\ \E env \in EnvCredentials, file \in FileCredentials, auth \in Authorize :
          LET r == initialize_client(env, file, auth)
          IN  obj' = [ctor |-> IF r.raised THEN "raised" ELSE "returned",
                      client |-> r.client, env |-> env, file |-> file, auth |-> auth]
    /\ UNCHANGED <<now, cache, clientVars, sheets, budget, threadVars, passObs, batch, gated,
                   calls, gate_obs, cw, cr, ticks, bo, rf, mc, cam, pz, ag,
                   bg, gs, sch>>

NextAuth == Construct \/ Next

SpecAuth == InitAuth /\ [][NextAuth]_vars

-----------------------------------------------------------------------------
(* The refresh trigger: the scheduler's thread runs refresh_data, whose     *)
(* callback is the dashboard's clear_all_cache, next to the passes of a     *)
(* session.                                                                 *)

\* DataRefreshScheduler.refresh_data with refresh_callback of RegionalDashboard.run
RefreshData ==
    /\ obj.ctor = "returned"
    /\ cache' = clear_all_cache(cache)
    /\ rf' = [returned |-> TRUE,
              quiet |-> \A t \in Threads : pc[t] = "idle",
              pass |-> passes["t1"],
              \* the sources whose data a pass has read and not yet written
              fetched |-> {Key(t) : t \in {u \in Threads : pc[u] \in {"c_open", "c_dump"}}}]
    /\ UNCHANGED <<now, clientVars, sheets, budget, threadVars, passObs, batch, gated, calls,
                   gate_obs, cw, cr, ticks, bo, obj, mc, cam, pz, ag,
                   bg, gs, sch>>

NextRefresh == Next \/ RefreshData

SpecRefresh == InitLive /\ [][NextRefresh]_vars

-----------------------------------------------------------------------------
(* exponential_backoff called directly with any attempt number, next to the *)
(* retry loop of a pass, which only reaches the attempts 0 and 1.           *)

\* either a caller of exponential_backoff alone, or one pass over one source
InitBackoff ==
    /\ InitCommon
    /\ sheets = OneSource
    /\ cache \in InitialCaches(sheets)
    /\ \/ budget = [t \in Threads |-> 0]
       \/ budget = [t \in Threads |-> IF t = "t1" THEN 1 ELSE 0]

\* exponential_backoff(attempt): delay = min(3 ** attempt, 180); time.sleep(delay)
ExponentialBackoff ==
    /\ \A t \in Threads : budget[t] = 0
    /\ ticks < MaxTicks
    /\ \E a \in 0..MaxAttempt :
          LET delay == exponential_backoff(a)
          IN  /\ bo' = [valid |-> TRUE, attempt |-> a, delay |-> delay,
                        prev |-> [valid |-> bo.valid, attempt |-> bo.attempt,
                                  delay |-> bo.delay]]
              /\ now' = now + delay
    /\ ticks' = ticks + 1
    /\ UNCHANGED <<cache, cw, cr, passVars, metricVars, parseVars, callerVars>>

NextBackoff == Next \/ ExponentialBackoff

SpecBackoff == InitBackoff /\ [][NextBackoff]_vars

-----------------------------------------------------------------------------
(* DataProcessor.calculate_metric (src/data_processor.py).  A formula is the *)
(* sequence of its tokens; Python's eval is a recursive descent over them.   *)

\* Python values: int n, float n/d, a non-numeric str; and what eval raises
PyInt(n) == [k |-> "int", n |-> n, d |-> 1]
PyFloat(n, d) == [k |-> "float", n |-> n, d |-> d]
PyStr == [k |-> "str", n |-> 0, d |-> 1]
Raised(e) == [k |-> e, n |-> 0, d |-> 1]
IsRaised(v) == v.k \in {"SyntaxError", "TypeError", "ZeroDivisionError"}
IsNumber(v) == v.k \in {"int", "float"}

\* a key the data dictionary does not have
Missing == [k |-> "missing", n |-> 0, d |-> 1]

MetricKeys ==
    {"onsite_vip_percentage", "remote_vip_percentage", "total_vip_percentage", "total_deals",
     "lead_conversion_rate", "opportunity_conversion_rate", "close_rate", "total_leads",
     "lead_to_sql_avg", "lead_to_ms_avg", "ms_to_1st_meeting_avg", "ms_to_mc_avg",
     "mc_to_closed_avg", "lead_to_win_avg",
     "membership_attachment_rate", "total_deals_membership"}

Ratio(x, y) == <<x, "/", y, "*", "100">>
RatioOfSum(x, z, y) == <<"(", x, "+", z, ")", "/", y, "*", "100">>

METRICS_CONFIG ==
    [m \in MetricKeys |->
        CASE m = "onsite_vip_percentage" ->
                [formula |-> Ratio("onsite_vip", "total_deals"), category |-> "vip"]
          [] m = "remote_vip_percentage" ->
                [formula |-> Ratio("remote_vip", "total_deals"), category |-> "vip"]
          [] m = "total_vip_percentage" ->
                [formula |-> RatioOfSum("onsite_vip", "remote_vip", "total_deals"),
                 category |-> "vip"]
          [] m = "total_deals" -> [formula |-> <<"total_deals">>, category |-> "vip"]
          [] m = "lead_conversion_rate" ->
                [formula |-> Ratio("qualified_leads", "leads"), category |-> "funnel"]
          [] m = "opportunity_conversion_rate" ->
                [formula |-> Ratio("opportunities", "qualified_leads"), category |-> "funnel"]
          [] m = "close_rate" ->
                [formula |-> Ratio("closed_won", "opportunities"), category |-> "funnel"]
          [] m = "total_leads" -> [formula |-> <<"leads">>, category |-> "funnel"]
          [] m = "membership_attachment_rate" ->
                [formula |-> RatioOfSum("membership_1", "membership_2", "total_deals"),
                 category |-> "membership"]
          [] m = "total_deals_membership" ->
                [formula |-> <<"total_deals">>, category |-> "membership"]
          [] OTHER -> [formula |-> <<m>>, category |-> "velocity"]]

Operators == {"+", "*", "/", "(", ")"}
Literals == {"100"}

\* re.findall(r'[a-zA-Z_]\w*', formula)
IsVariable(tok) == tok \notin Operators \cup Literals
variables(formula) == {formula[i] : i \in {j \in 1..Len(formula) : IsVariable(formula[j])}}

Categories == {METRICS_CONFIG[m].category : m \in MetricKeys}
FieldsOf(category) ==
    UNION {variables(METRICS_CONFIG[m].formula) :
              m \in {x \in MetricKeys : METRICS_CONFIG[x].category = category}}
Fields == UNION {FieldsOf(c) : c \in Categories}

\* + of Python
Plus(a, b) ==
    IF a.k = "int" /\ b.k = "int" THEN PyInt(a.n + b.n)
    ELSE IF IsNumber(a) /\ IsNumber(b) THEN PyFloat(a.n * b.d + b.n * a.d, a.d * b.d)
    ELSE IF a.k = "str" /\ b.k = "str" THEN PyStr
    ELSE Raised("TypeError")

\* * of Python (a str times an int is a str)
Times(a, b) ==
    IF a.k = "int" /\ b.k = "int" THEN PyInt(a.n * b.n)
    ELSE IF IsNumber(a) /\ IsNumber(b) THEN PyFloat(a.n * b.n, a.d * b.d)
    ELSE IF (a.k = "str" /\ b.k = "int") \/ (a.k = "int" /\ b.k = "str") THEN PyStr
    ELSE Raised("TypeError")

\* / of Python: true division
Divide(a, b) ==
    IF ~(IsNumber(a) /\ IsNumber(b)) THEN Raised("TypeError")
    ELSE IF b.n = 0 THEN Raised("ZeroDivisionError")
    ELSE IF b.n > 0 THEN PyFloat(a.n * b.d, a.d * b.n)
    ELSE PyFloat(0 - a.n * b.d, 0 - a.d * b.n)

Apply(op, a, b) ==
    IF IsRaised(a) THEN a
    ELSE IF IsRaised(b) THEN b
    ELSE IF op = "+" THEN Plus(a, b)
    ELSE IF op = "*" THEN Times(a, b)
    ELSE Divide(a, b)

\* variant: nothing compares equal to 0
EqualsZero_Never(v) == FALSE

\* `denominator_val == 0`
EqualsZero(v) == IsNumber(v) /\ v.n = 0

RECURSIVE ParseExpr(_, _, _)
RECURSIVE ExprTail(_, _, _, _)
RECURSIVE ParseTerm(_, _, _)
RECURSIVE TermTail(_, _, _, _)
RECURSIVE ParseFactor(_, _, _)

\* factor: a name, a literal or ( expr )
ParseFactor(toks, p, env) ==
    IF p > Len(toks) THEN [v |-> Raised("SyntaxError"), p |-> p]
    ELSE IF toks[p] = "("
    THEN LET r == ParseExpr(toks, p + 1, env)
         IN  IF r.p <= Len(toks) /\ toks[r.p] = ")"
             THEN [v |-> r.v, p |-> r.p + 1]
             ELSE [v |-> Raised("SyntaxError"), p |-> r.p]
    ELSE IF toks[p] = "100" THEN [v |-> PyInt(100), p |-> p + 1]
    ELSE IF IsVariable(toks[p]) THEN [v |-> env[toks[p]], p |-> p + 1]
    ELSE [v |-> Raised("SyntaxError"), p |-> p]

\* term: factor ((* | /) factor)*, from the left
TermTail(toks, p, env, acc) ==
    IF p <= Len(toks) /\ toks[p] \in {"*", "/"}
    THEN LET f == ParseFactor(toks, p + 1, env)
         IN  TermTail(toks, f.p, env, Apply(toks[p], acc, f.v))
    ELSE [v |-> acc, p |-> p]

ParseTerm(toks, p, env) ==
    LET f == ParseFactor(toks, p, env)
    IN  TermTail(toks, f.p, env, f.v)

\* expr: term (+ term)*, from the left
ExprTail(toks, p, env, acc) ==
    IF p <= Len(toks) /\ toks[p] = "+"
    THEN LET f == ParseTerm(toks, p + 1, env)
         IN  ExprTail(toks, f.p, env, Apply("+", acc, f.v))
    ELSE [v |-> acc, p |-> p]

ParseExpr(toks, p, env) ==
    LET f == ParseTerm(toks, p, env)
    IN  ExprTail(toks, f.p, env, f.v)

\* eval(expression, globals, safe_env): the value, or the exception raised
Eval(toks, env) ==
    LET r == ParseExpr(toks, 1, env)
    IN  IF IsRaised(r.v) THEN r.v
        ELSE IF r.p = Len(toks) + 1 THEN r.v
        ELSE Raised("SyntaxError")

\* '/' in formula
HasDivision(formula) == \E i \in 1..Len(formula) : formula[i] = "/"

\* formula.split('/')[-1].strip(), the parentheses taken out if it has one
DenominatorStr(formula) ==
    LET last == CHOOSE i \in 1..Len(formula) :
                    formula[i] = "/" /\ \A j \in (i + 1)..Len(formula) : formula[j] # "/"
        tail == SubSeq(formula, last + 1, Len(formula))
    IN  SelectSeq(tail, LAMBDA tok : tok \notin {"(", ")"})

\* safe_env = {var: data_dict.get(var, 0) for var in variables}
SafeEnv(data_dict) ==
    [var \in Fields |-> IF data_dict[var] = Missing THEN PyInt(0) ELSE data_dict[var]]

\* calculate_metric, the body of its try: 0.0 on a zero denominator, else the
\* value of the formula, or what one of the two eval calls raises
try_calculate_metric(data_dict, metric_key) ==
    LET formula  == METRICS_CONFIG[metric_key].formula
        safe_env == SafeEnv(data_dict)
        denominator_val == Eval(DenominatorStr(formula), safe_env)
    IN  IF HasDivision(formula)
        THEN IF IsRaised(denominator_val) THEN denominator_val
             ELSE IF EqualsZero(denominator_val) THEN PyFloat(0, 1)
             ELSE Eval(formula, safe_env)
        ELSE Eval(formula, safe_env)

\* variant: a TypeError is not caught
calculate_metric_Propagates(data_dict, metric_key) ==
    try_calculate_metric(data_dict, metric_key)

\* calculate_metric: None on any exception
calculate_metric(data_dict, metric_key) ==
    LET value == try_calculate_metric(data_dict, metric_key)
    IN  IF IsRaised(value) THEN None ELSE value

\* the order of METRICS_CONFIG.items()
MetricOrder ==
    <<"onsite_vip_percentage", "remote_vip_percentage", "total_vip_percentage", "total_deals",
      "lead_conversion_rate", "opportunity_conversion_rate", "close_rate", "total_leads",
      "lead_to_sql_avg", "lead_to_ms_avg", "ms_to_1st_meeting_avg", "ms_to_mc_avg",
      "mc_to_closed_avg", "lead_to_win_avg",
      "membership_attachment_rate", "total_deals_membership">>

\* a metric key that `metrics` does not have
Unset == [unset |-> TRUE]

\* the next position from p on whose metric is of the category (or past the end)
RECURSIVE NextOfCategory(_, _)
NextOfCategory(category, p) ==
    IF p > Len(MetricOrder) THEN p
    ELSE IF METRICS_CONFIG[MetricOrder[p]].category = category THEN p
    ELSE NextOfCategory(category, p + 1)

\* what a field of a data dictionary holds: nothing, 0, a parsed float, text
FieldValues == {Missing, PyInt(0), PyStr} \cup {PyFloat(n, 1) : n \in 0..MaxField}

\* the data dictionaries with the keys `fields` at most
DataDicts(fields) ==
    {[f \in Fields |-> IF f \in fields THEN d[f] ELSE Missing] : d \in [fields -> FieldValues]}

pipelineVars == <<now, cache, passVars, cw, cr, ticks, bo>>

InitMetric ==
    /\ InitCommon
    /\ sheets = ConfigOrder
    /\ budget = [t \in Threads |-> 0]
    /\ cache = [ck \in CacheKeys |-> Absent]

\* a caller of calculate_metric(data_dict, metric_key)
CalculateMetric ==
    /\ cam.state = "idle"
    /\ ~mc.valid
    /\ \E metric_key \in MetricKeys :
          \E data_dict \in DataDicts(variables(METRICS_CONFIG[metric_key].formula)) :
             mc' = [valid |-> TRUE, key |-> metric_key, data |-> data_dict,
                    ret |-> calculate_metric(data_dict, metric_key)]
    /\ UNCHANGED <<cam, pipelineVars, parseVars, callerVars>>

\* calculate_all_metrics_for_category(data_dict, category): metrics = {}
CalcAllBegin ==
    /\ cam.state = "idle"
    /\ ~mc.valid
    /\ \E category \in Categories :
          \E data_dict \in DataDicts(FieldsOf(category)) :
             cam' = [state |-> "running", category |-> category, data |-> data_dict,
                     p |-> NextOfCategory(category, 1),
                     metrics |-> [m \in MetricKeys |-> Unset]]
    /\ UNCHANGED <<mc, pipelineVars, parseVars, callerVars>>

\* one turn of the loop for a metric of the category: value = calculate_metric(...),
\* metrics[metric_key] = {'value': value, ...}; an exception leaves the call
CalcAllStep ==
    /\ cam.state = "running"
    /\ cam.p <= Len(MetricOrder)
    /\ LET metric_key == MetricOrder[cam.p]
           value == calculate_metric(cam.data, metric_key)
       IN  IF value # None /\ IsRaised(value)
           THEN cam' = [cam EXCEPT !.state = "raised"]
           ELSE cam' = [cam EXCEPT !.metrics[metric_key] = value,
                                   !.p = NextOfCategory(cam.category, cam.p + 1)]
    /\ UNCHANGED <<mc, pipelineVars, parseVars, callerVars>>

\* return metrics
CalcAllReturn ==
    /\ cam.state = "running"
    /\ cam.p > Len(MetricOrder)
    /\ cam' = [cam EXCEPT !.state = "returned"]
    /\ UNCHANGED <<mc, pipelineVars, parseVars, callerVars>>

NextMetric == CalculateMetric \/ CalcAllBegin \/ CalcAllStep \/ CalcAllReturn

SpecMetric == InitMetric /\ [][NextMetric]_vars

-----------------------------------------------------------------------------
(* Python strings: a str is the sequence of its characters *)

DigitChars == <<"0", "1", "2", "3", "4", "5", "6", "7", "8", "9">>
IsDigit(c) == \E d \in 1..10 : DigitChars[d] = c
DigitValue(c) == (CHOOSE d \in 1..10 : DigitChars[d] = c) - 1

\* `needle in s`
Contains(needle, s) ==
    \E i \in 1..(Len(s) - Len(needle) + 1) : SubSeq(s, i, i + Len(needle) - 1) = needle

\* s.strip(): the cells hold no other whitespace than blanks
RECURSIVE lstrip(_)
lstrip(s) == IF s # <<>> /\ Head(s) = " " THEN lstrip(Tail(s)) ELSE s

RECURSIVE rstrip(_)
rstrip(s) ==
    IF s # <<>> /\ s[Len(s)] = " " THEN rstrip(SubSeq(s, 1, Len(s) - 1)) ELSE s

strip(s) == rstrip(lstrip(s))

\* s.replace(',', '')
RemoveCommas(s) == SelectSeq(s, LAMBDA c : c # ",")

\* s.lower(), for the capitals the cells hold
UpperChars == <<"S", "T", "U", "H", "C", "D", "N", "A">>
LowerChars == <<"s", "t", "u", "h", "c", "d", "n", "a">>
LowerChar(c) ==
    IF \E u \in 1..Len(UpperChars) : UpperChars[u] = c
    THEN LowerChars[CHOOSE u \in 1..Len(UpperChars) : UpperChars[u] = c]
    ELSE c
lower(s) == [i \in 1..Len(s) |-> LowerChar(s[i])]

\* the number a string of digits writes
RECURSIVE DigitsValue(_)
DigitsValue(s) ==
    IF s = <<>> THEN 0 ELSE 10 * DigitsValue(SubSeq(s, 1, Len(s) - 1)) + DigitValue(s[Len(s)])

ValueError == Raised("ValueError")

\* float(s) for the texts the cells hold: digits convert, what holds another
\* character (a letter, a bracket, a quote, '-' or '/' between digits) raises
float(s) ==
    LET t == strip(s)
    IN  IF t # <<>> /\ \A i \in 1..Len(t) : IsDigit(t[i])
        THEN PyFloat(DigitsValue(t), 1)
        ELSE ValueError

\* repr of a list of str, which is what str() of a list gives: ['a', 'b']
RECURSIVE ReprItems(_)
ReprItems(row) ==
    IF row = <<>> THEN <<>>
    ELSE <<"'">> \o Head(row) \o <<"'">>
         \o (IF Len(row) > 1 THEN <<",", " ">> ELSE <<>>) \o ReprItems(Tail(row))

ReprList(row) == <<"[">> \o ReprItems(row) \o <<"]">>

-----------------------------------------------------------------------------
(* Month columns: find_month_columns_batch, _index_to_column_letter *)

ColumnLetters ==
    <<"A", "B", "C", "D", "E", "F", "G", "H", "I", "J", "K", "L", "M",
      "N", "O", "P", "Q", "R", "S", "T", "U", "V", "W", "X", "Y", "Z">>

\* _index_to_column_letter: the loop `while col_idx >= 0`, the letters prepended
RECURSIVE ColumnLetterLoop(_, _)
ColumnLetterLoop(col_idx, result) ==
    IF col_idx >= 0
    THEN ColumnLetterLoop((col_idx \div 26) - 1, ColumnLetters[(col_idx % 26) + 1] \o result)
    ELSE result

index_to_column_letter(col_idx) == ColumnLetterLoop(col_idx, "")

\* re.search(r'(\d{2})-(\d{2})', s): the start of the leftmost match, 0 for None
MatchStarts(s) ==
    {i \in 1..(Len(s) - 4) :
        /\ IsDigit(s[i]) /\ IsDigit(s[i + 1]) /\ s[i + 2] = "-"
        /\ IsDigit(s[i + 3]) /\ IsDigit(s[i + 4])}

DatePatternSearch(s) ==
    IF MatchStarts(s) = {} THEN 0 ELSE CHOOSE i \in MatchStarts(s) : \A j \in MatchStarts(s) : i <= j

\* match.groups() as numbers: int(f"20{year}"), int(month)
MatchGroups(s) ==
    LET i == DatePatternSearch(s)
    IN  [year |-> 2000 + DigitsValue(SubSeq(s, i, i + 1)),
         month |-> DigitsValue(SubSeq(s, i + 3, i + 4))]

MonthNames ==
    <<"January", "February", "March", "April", "May", "June", "July",
      "August", "September", "October", "November", "December">>

\* datetime(year, month, 1) raises ValueError for a month outside 1..12
ValidDate(year, month) == month \in 1..12

\* datetime(year, month, 1).strftime("%B %Y")
strftime_BY(year, month) == MonthNames[month] \o " " \o ToString(year)

\* datetime.strptime(label, '%B %Y') of a label strftime_BY has made
Dates == [year : 2000..2099, month : 1..12]
LabelOfDate == [d \in Dates |-> strftime_BY(d.year, d.month)]
DateOfLabel ==
    [label \in {LabelOfDate[d] : d \in Dates} |-> CHOOSE d \in Dates : LabelOfDate[d] = label]
strptime_BY(label) == DateOfLabel[label]

\* a dict as the sequence of its items in insertion order
DictKeys(dict) == {dict[i].key : i \in 1..Len(dict)}
DictGet(dict, key) == (CHOOSE i \in 1..Len(dict) : dict[i].key = key)
DictSet(dict, key, val) ==
    IF key \in DictKeys(dict)
    THEN [dict EXCEPT ![DictGet(dict, key)] = [key |-> key, val |-> val]]
    ELSE Append(dict, [key |-> key, val |-> val])

\* find_month_columns_batch: the month_columns dict, or the ValueError that
\* datetime(...) raises out of the loop
RECURSIVE FindMonthColumns(_, _, _)
FindMonthColumns(header_row, i, month_columns) ==
    IF i > Len(header_row) THEN [raised |-> FALSE, month_columns |-> month_columns]
    ELSE IF DatePatternSearch(header_row[i]) = 0
         THEN FindMonthColumns(header_row, i + 1, month_columns)
    ELSE LET g == MatchGroups(header_row[i])
         IN  IF ~ValidDate(g.year, g.month)
             THEN [raised |-> TRUE, month_columns |-> <<>>]
             ELSE FindMonthColumns(header_row, i + 1,
                      DictSet(month_columns, strftime_BY(g.year, g.month),
                              index_to_column_letter(i - 1)))

find_month_columns_batch(header_row) == FindMonthColumns(header_row, 1, <<>>)

-----------------------------------------------------------------------------
(* Category parsers: VIP and Membership (month columns) *)

\* A batched payload is a list of 2-D blocks, one per requested range: a block
\* is a list of rows, a row a list of cells, a cell a str.
EmptyDict == <<>>
DictValue(dict, key) == dict[DictGet(dict, key)].val
DictValues(dict) == [i \in 1..Len(dict) |-> dict[i].val]

\* v > 0 for a number
Positive(v) == v.n > 0

\* the number in the first cell of the first row of a block, 0 without one
extract_cell_value_FirstCell(cell_data) ==
    IF cell_data # <<>> /\ Len(cell_data[1]) > 0 /\ Len(cell_data[1][1]) > 0
    THEN LET value == cell_data[1][1][1]
         IN  IF value # <<>> /\ strip(value) # <<>>
             THEN LET number == float(strip(RemoveCommas(value)))
                  IN  IF number = ValueError THEN PyInt(0) ELSE number
             ELSE PyInt(0)
    ELSE PyInt(0)

\* _extract_cell_value(cell_data) as the month parsers call it: cell_data is
\* [all_data[i]], a list that holds one block, so cell_data[0][0] is the first
\* row of the block, a list, and str(value) is the repr of that list
extract_cell_value(cell_data) ==
    IF cell_data # <<>> /\ Len(cell_data[1]) > 0
    THEN LET value == cell_data[1][1]
         IN  IF value # <<>> /\ strip(ReprList(value)) # <<>>
             THEN LET number == float(strip(RemoveCommas(ReprList(value))))
                  IN  IF number = ValueError THEN PyInt(0) ELSE number
             ELSE PyInt(0)
    ELSE PyInt(0)

\* header_cell[0][0] if header_cell and len(header_cell) > 0 and len(header_cell[0]) > 0 else ""
HeaderValue(header_cell) ==
    IF header_cell # <<>> /\ Len(header_cell[1]) > 0 THEN header_cell[1][1] ELSE <<>>

\* the first column the month parsers request (range(22, 46): V)
FirstMonthColumn == 22

\* the month_label of a monthly record: "<month> (<column letter>)"
MonthLabel(month_name, col_letter) ==
    MonthNames[strptime_BY(month_name).month] \o " (" \o col_letter \o ")"

\* the loop `for i in range(0, len(all_data), 4)` from index i on; first and
\* second name the two sub-metrics of the category.  A ValueError of
\* datetime(...) is caught inside the loop (`continue`).
RECURSIVE MonthGroups(_, _, _, _, _)
MonthGroups(blocks, i, monthly_data, first, second) ==
    IF i >= Len(blocks) THEN monthly_data
    ELSE IF ~(i + 3 < Len(blocks))
         THEN MonthGroups(blocks, i + 4, monthly_data, first, second)
    ELSE LET header_value == HeaderValue(blocks[i + 1])
         IN  IF DatePatternSearch(header_value) = 0
             THEN MonthGroups(blocks, i + 4, monthly_data, first, second)
             ELSE LET g == MatchGroups(header_value)
                  IN  IF ~ValidDate(g.year, g.month)
                      THEN MonthGroups(blocks, i + 4, monthly_data, first, second)
                      ELSE LET month_name == strftime_BY(g.year, g.month)
                               col_letter == index_to_column_letter(FirstMonthColumn + (i \div 4))
                               total_deals == extract_cell_value(<<blocks[i + 2]>>)
                               first_val == extract_cell_value(<<blocks[i + 3]>>)
                               second_val == extract_cell_value(<<blocks[i + 4]>>)
                               month_data ==
                                   <<[key |-> "total_deals", val |-> total_deals],
                                     [key |-> first, val |-> first_val],
                                     [key |-> second, val |-> second_val],
                                     [key |-> "month_label",
                                      val |-> MonthLabel(month_name, col_letter)]>>
                           IN  IF Positive(total_deals)
                               THEN MonthGroups(blocks, i + 4,
                                        DictSet(monthly_data, month_name, month_data),
                                        first, second)
                               ELSE MonthGroups(blocks, i + 4, monthly_data, first, second)

\* the sort key datetime.strptime(item[0], '%B %Y'), as a number of months
DateKey(label) == strptime_BY(label).year * 12 + strptime_BY(label).month

\* sorted(items, key=..., reverse=True): a stable insertion, newest first
RECURSIVE InsertByDate(_, _)
InsertByDate(item, sorted) ==
    IF sorted = <<>> THEN <<item>>
    ELSE IF DateKey(item.key) > DateKey(Head(sorted).key) THEN <<item>> \o sorted
    ELSE <<Head(sorted)>> \o InsertByDate(item, Tail(sorted))

RECURSIVE SortedMonths(_)
SortedMonths(items) ==
    IF items = <<>> THEN <<>>
    ELSE InsertByDate(items[Len(items)], SortedMonths(SubSeq(items, 1, Len(items) - 1)))

\* what the month parsers return from the monthly_data they have built
MonthResult(monthly_data) ==
    LET sorted_months == SortedMonths(monthly_data)
    IN  [raw_data |-> IF sorted_months # <<>> THEN DictValues(sorted_months)[1] ELSE EmptyDict,
         monthly_data |-> sorted_months]

\* process_vip_data_batch on the result of its batched read
process_vip_data_batch(batch_result) ==
    IF batch_result = EmptyBatch
    THEN [raw_data |-> EmptyDict, monthly_data |-> EmptyDict]
    ELSE MonthResult(MonthGroups(batch_result.blocks, 0, EmptyDict,
                                 "onsite_vip_deals", "remote_vip_deals"))

\* process_membership_data_batch on the result of its batched read
process_membership_data_batch(batch_result) ==
    IF batch_result = EmptyBatch
    THEN [raw_data |-> EmptyDict, monthly_data |-> EmptyDict]
    ELSE MonthResult(MonthGroups(batch_result.blocks, 0, EmptyDict,
                                 "membership_1", "membership_2"))

-----------------------------------------------------------------------------
(* Category parsers: Funnel *)

\* ranges_config.get(sheet_key, []): how many ranges the source has
FunnelRanges(sheet_key) ==
    IF sheet_key = "sales_funnel_my" THEN 3
    ELSE IF sheet_key \in {"sales_funnel_ph", "sales_funnel_th"} THEN 1
    ELSE 0

\* all_data.extend(range_data) for every range_data that is not empty
RECURSIVE ConcatRanges(_)
ConcatRanges(funnel_data) ==
    IF funnel_data = <<>> THEN <<>> ELSE Head(funnel_data) \o ConcatRanges(Tail(funnel_data))

\* rows with fewer cells are filtered out
MinRowLength == 14

HeaderKeywords ==
    {<<"s", "t", "a", "t", "u", "s">>, <<"t", "i", "m", "e", "s", "t", "a", "m", "p">>, <<"u", "p", "d", "a", "t", "e">>, <<"h", "e", "a", "d", "e", "r">>, <<"t", "i", "t", "l", "e">>, <<"c", "r", "e", "a", "t", "e", "d", " ", "d", "a", "t", "e">>}

\* the shortest first cell that may be a date
MinDateLength == 8

\* the keys of a table row and the 0-based column each is read from
TableColumns ==
    <<[key |-> "created_date", col |-> 0], [key |-> "sum_of_won", col |-> 6],
      [key |-> "lead_mql_pct", col |-> 7], [key |-> "mql_sql_pct", col |-> 8],
      [key |-> "sql_ms_pct", col |-> 9], [key |-> "ms_mc_pct", col |-> 10],
      [key |-> "lead_to_win_pct", col |-> 13], [key |-> "lead_to_sql_pct", col |-> 14]>>

\* the largest column a table row reads
LastTableColumn == 14

\* str(row[0]).strip() if row[0] else ""
FirstCol(row) == IF row[1] # <<>> THEN strip(row[1]) ELSE <<>>

\* the row is skipped: a header keyword, or nothing that looks like a date
SkipRow(row) ==
    \/ \E header_keyword \in HeaderKeywords : Contains(header_keyword, lower(FirstCol(row)))
    \/ Len(FirstCol(row)) < MinDateLength
    \/ ~\E i \in 1..Len(FirstCol(row)) : IsDigit(FirstCol(row)[i])

\* row[14] raises IndexError on a row of fewer than 15 cells
TableRowRaises(row) == Len(row) <= LastTableColumn

table_row(row) ==
    [i \in 1..Len(TableColumns) |->
        [key |-> TableColumns[i].key,
         val |-> IF TableColumns[i].col < Len(row) THEN row[TableColumns[i].col + 1]
                 ELSE <<>>]]

\* the loop over filtered_data: table_data, or the IndexError that leaves it
RECURSIVE TableData(_, _)
TableData(filtered_data, table_data) ==
    IF filtered_data = <<>> THEN [raised |-> FALSE, table_data |-> table_data]
    ELSE LET row == Head(filtered_data)
         IN  IF SkipRow(row) THEN TableData(Tail(filtered_data), table_data)
             ELSE IF TableRowRaises(row) THEN [raised |-> TRUE, table_data |-> <<>>]
             ELSE TableData(Tail(filtered_data), Append(table_data, table_row(row)))

EmptyFunnel == [raw_data |-> EmptyDict, table_data |-> <<>>]

\* process_funnel_data_batch on the result of its batched read; every
\* exception ends in `except Exception: return {'raw_data': {}, 'table_data': []}`
process_funnel_data_batch(batch_result, sheet_key) ==
    IF FunnelRanges(sheet_key) = 0 THEN EmptyFunnel
    ELSE IF batch_result = EmptyBatch THEN EmptyFunnel
    ELSE LET rows == ConcatRanges(batch_result.blocks)
             filtered_data == SelectSeq(rows, LAMBDA row : Len(row) >= MinRowLength)
             loop == TableData(filtered_data, <<>>)
         IN  IF rows = <<>> THEN EmptyFunnel
             ELSE IF loop.raised THEN EmptyFunnel
             ELSE [raw_data |-> IF loop.table_data # <<>>
                                THEN loop.table_data[Len(loop.table_data)]
                                ELSE EmptyDict,
                   table_data |-> loop.table_data]

-----------------------------------------------------------------------------
(* Category parsers: Velocity *)

\* _safe_extract_float(row, col_idx), col_idx 0-based
safe_extract_float(row, col_idx) ==
    IF Len(row) > col_idx
    THEN LET value == row[col_idx + 1]
         IN  IF value # <<>> /\ strip(value) # <<>>
             THEN LET number == float(strip(RemoveCommas(value)))
                  IN  IF number = ValueError THEN PyInt(0) ELSE number
             ELSE PyInt(0)
    ELSE PyInt(0)

CohortMonths ==
    {<<"0", "5", "/", "2", "0", "2", "5">>, <<"0", "6", "/", "2", "0", "2", "5">>, <<"0", "7", "/", "2", "0", "2", "5">>, <<"0", "8", "/", "2", "0", "2", "5">>,
     <<"0", "9", "/", "2", "0", "2", "5">>, <<"1", "0", "/", "2", "0", "2", "5">>, <<"1", "1", "/", "2", "0", "2", "5">>, <<"1", "2", "/", "2", "0", "2", "5">>}

\* the test the parser makes on the stripped text of every cell
IsCohortCell(cell_str) ==
    /\ Contains(<<" ", "-", " ">>, cell_str)
    /\ (Contains(<<"2", "0", "2", "5">>, cell_str) \/ Contains(<<"2", "0", "2", "4">>, cell_str))
    /\ \/ Contains(<<"2", "8", "/", "0", "4", "/", "2", "0", "2", "5">>, cell_str)
       \/ \E month \in CohortMonths : Contains(month, cell_str)

\* the cohorts of one row, in column order
RECURSIVE RowCohorts(_, _, _)
RowCohorts(row, row_idx, col_idx) ==
    IF col_idx >= Len(row) THEN <<>>
    ELSE (IF IsCohortCell(strip(row[col_idx + 1]))
          THEN <<[row_idx |-> row_idx, date_range |-> strip(row[col_idx + 1]),
                  col_idx |-> col_idx]>>
          ELSE <<>>)
         \o RowCohorts(row, row_idx, col_idx + 1)

\* weekly_cohorts: the cohorts of all rows, in row order
RECURSIVE WeeklyCohorts(_, _)
WeeklyCohorts(all_values, row_idx) ==
    IF row_idx >= Len(all_values) THEN <<>>
    ELSE RowCohorts(all_values[row_idx + 1], row_idx, 0)
         \o WeeklyCohorts(all_values, row_idx + 1)

\* the metrics and the 0-based column each is read from (D to I)
VelocityColumns ==
    <<[key |-> "lead_to_sql", col |-> 3], [key |-> "lead_to_ms", col |-> 4],
      [key |-> "ms_to_1st_meeting", col |-> 5], [key |-> "ms_to_mc", col |-> 6],
      [key |-> "mc_to_closed", col |-> 7], [key |-> "lead_to_win", col |-> 8]>>

VelocityMetrics(data_row) ==
    [i \in 1..Len(VelocityColumns) |->
        [key |-> VelocityColumns[i].key,
         val |-> safe_extract_float(data_row, VelocityColumns[i].col)]]

\* weekly_data: one record per cohort that has a row below it
RECURSIVE WeeklyData(_, _)
WeeklyData(all_values, weekly_cohorts) ==
    IF weekly_cohorts = <<>> THEN <<>>
    ELSE LET cohort == Head(weekly_cohorts)
             data_row_idx == cohort.row_idx + 1
         IN  (IF data_row_idx < Len(all_values)
              THEN << <<[key |-> "week_range", val |-> cohort.date_range]>>
                      \o VelocityMetrics(all_values[data_row_idx + 1]) >>
              ELSE <<>>)
             \o WeeklyData(all_values, Tail(weekly_cohorts))

\* sum(values) for numbers whose denominator is 1
RECURSIVE SumValues(_)
SumValues(values) == IF values = <<>> THEN 0 ELSE Head(values).n + SumValues(Tail(values))

\* variant: the weeks with a value of 0 are counted in the average
AverageOf_AllWeeks(weekly_data, metric) ==
    PyFloat(SumValues([i \in 1..Len(weekly_data) |-> DictValue(weekly_data[i], metric)]),
            Len(weekly_data))

\* sum(values) / len(values) if values else 0, values the metric where it is > 0
AverageOf(weekly_data, metric) ==
    LET all == [i \in 1..Len(weekly_data) |-> DictValue(weekly_data[i], metric)]
        values == SelectSeq(all, Positive)
    IN  IF values # <<>> THEN PyFloat(SumValues(values), Len(values)) ELSE PyInt(0)

\* averages: filled when some cohort has a data row
Averages(weekly_data) ==
    IF weekly_data = <<>> THEN EmptyDict
    ELSE [i \in 1..Len(VelocityColumns) |->
            [key |-> VelocityColumns[i].key \o "_avg",
             val |-> AverageOf(weekly_data, VelocityColumns[i].key)]]

EmptyVelocity == [raw_data |-> EmptyDict, weekly_data |-> <<>>]

\* process_velocity_data_batch on the result of its batched read
process_velocity_data_batch(batch_result) ==
    IF batch_result = EmptyBatch THEN EmptyVelocity
    ELSE LET all_values == IF batch_result.blocks # <<>> THEN batch_result.blocks[1] ELSE <<>>
             weekly_cohorts == WeeklyCohorts(all_values, 0)
             weekly_data == WeeklyData(all_values, weekly_cohorts)
         IN  IF all_values = <<>> THEN EmptyVelocity
             ELSE IF weekly_cohorts = <<>> THEN EmptyVelocity
             ELSE [raw_data |-> Averages(weekly_data), weekly_data |-> weekly_data]

-----------------------------------------------------------------------------
(* Callers of the parsers: a parser is run on a batched payload *)

MaxMonthColumns == 2
MaxHeader == 3
MaxFunnelRows == 2
MaxVelocityRows == 4

SeqsUpTo(S, n) == UNION {[1..k -> S] : k \in 0..n}

\* the block of a range that holds one cell, and of a range without values
Block(cell) == << <<cell>> >>
NoValues == <<>>

HeaderBlocks == {NoValues, Block(<<"2", "5", "-", "0", "4">>), Block(<<"2", "5", "-", "0", "5">>), Block(<<"2", "5", "-", "1", "3">>)}
TotalBlocks == {NoValues, Block(<<"1", "2">>), Block(<<"0">>)}
FirstBlocks == {Block(<<"3">>), Block(<<"N", "/", "A">>)}
SecondBlocks == {Block(<<"1">>)}

\* the four blocks of one month column: header, total and the two sub-metrics
MonthColumnBlocks ==
    {<<h, t, a, b>> : h \in HeaderBlocks, t \in TotalBlocks, a \in FirstBlocks, b \in SecondBlocks}

RECURSIVE Flatten(_)
Flatten(lists) == IF lists = <<>> THEN <<>> ELSE Head(lists) \o Flatten(Tail(lists))

\* what the batched read of a month parser may return
MonthPayloads ==
    {EmptyBatch}
    \cup {BatchResult(Flatten(cols)) : cols \in SeqsUpTo(MonthColumnBlocks, MaxMonthColumns)}
    \cup {BatchResult(<<Block(<<"2", "5", "-", "0", "4">>), Block(<<"1", "2">>)>>)}

\* header rows for find_month_columns_batch
HeaderCells == {<<".", ".", ".">>, <<"2", "5", "-", "0", "4">>, <<"2", "5", "-", "0", "5">>, <<"2", "5", "-", "1", "3">>}
HeaderRows == SeqsUpTo(HeaderCells, MaxHeader)

\* funnel rows: a first cell followed by cells "1", "2", ...
FillerCells ==
    <<<<"1">>, <<"2">>, <<"3">>, <<"4">>, <<"5">>, <<"6">>, <<"7">>,
      <<"8">>, <<"9">>, <<"1", "0">>, <<"1", "1">>, <<"1", "2">>, <<"1", "3">>, <<"1", "4">>>>
FunnelRow(first, length) == <<first>> \o SubSeq(FillerCells, 1, length - 1)

RangeRows ==
    {FunnelRow(<<"2", "0", "2", "5", "-", "0", "5", "-", "0", "1">>, 15), FunnelRow(<<"2", "0", "2", "5", "-", "0", "5", "-", "0", "8">>, 14), FunnelRow(<<"S", "t", "a", "t", "u", "s">>, 15)}
FunnelRows ==
    RangeRows
    \cup {FunnelRow(<<"2", "0", "2", "5", "-", "0", "5", "-", "0", "8">>, 15), FunnelRow(<<"2", "0", "2", "5", "-", "0", "5", "-", "0", "1">>, 13),
          FunnelRow(<<"1", "/", "5", "/", "2", "5">>, 15), FunnelRow(<<"U", "p", "c", "o", "m", "i", "n", "g">>, 15),
          FunnelRow(<<"C", "r", "e", "a", "t", "e", "d", " ", "D", "a", "t", "e", " ", "2", "0", "2", "5">>, 15), FunnelRow(<<>>, 15)}

\* what the batched read of the funnel parser may return for a source
FunnelPayloads(sheet_key) ==
    {EmptyBatch}
    \cup (IF FunnelRanges(sheet_key) = 3
          THEN {BatchResult(<<r1, r2, r3>>) :
                   r1 \in SeqsUpTo(RangeRows, MaxFunnelRows - 1),
                   r2 \in SeqsUpTo(RangeRows, MaxFunnelRows - 1),
                   r3 \in SeqsUpTo(RangeRows, MaxFunnelRows - 1)}
          ELSE {BatchResult(<<r>>) : r \in SeqsUpTo(FunnelRows, MaxFunnelRows)})

FunnelKeys == {"sales_funnel_my", "sales_funnel_ph"}

\* velocity rows: a week label in column A, or a row of values in columns A to I
WeekBefore == <<"2", "1", "/", "0", "4", "/", "2", "0", "2", "5", " ", "-", " ", "2", "7", "/", "0", "4", "/", "2", "0", "2", "5">>
WeekStart == <<"2", "8", "/", "0", "4", "/", "2", "0", "2", "5", " ", "-", " ", "0", "4", "/", "0", "5", "/", "2", "0", "2", "5">>
WeekMay == <<" ", "0", "5", "/", "0", "5", "/", "2", "0", "2", "5", " ", "-", " ", "1", "1", "/", "0", "5", "/", "2", "0", "2", "5">>
WeekNextYear == <<"0", "5", "/", "0", "1", "/", "2", "0", "2", "6", " ", "-", " ", "1", "1", "/", "0", "1", "/", "2", "0", "2", "6">>
WeekCells == {WeekBefore, WeekStart, WeekMay, WeekNextYear}
ValuesRow(v) == <<<<"M", "Y">>, <<>>, <<>>>> \o v
ZeroValues == ValuesRow(<<<<"0">>, <<"0">>, <<"0">>, <<"0">>, <<"0">>, <<"0">>>>)
SomeValues == ValuesRow(<<<<"4">>, <<"6">>, <<"1", ",", "2", "0", "0">>, <<"2">>, <<"8">>, <<"1", "0">>>>)
PartValues == ValuesRow(<<<<"2">>, <<"N", "/", "A">>, <<>>, <<"0">>>>)
VelocityRows == {<<w>> : w \in WeekCells} \cup {ZeroValues, SomeValues, PartValues}

\* what the batched read of the velocity parser may return
VelocityPayloads ==
    {EmptyBatch, BatchResult(<<>>)}
    \cup {BatchResult(<<rows>>) : rows \in SeqsUpTo(VelocityRows, MaxVelocityRows)}

parseFrame ==
    <<now, cache, last_api_call_time, last_error, sheets, budget, pc, cur, attempt, wake,
      all_data, passes, pre, outcome, probe, batch, gated, calls, gate_obs, pass_fail,
      prev_fail, cw, cr, ticks, bo, obj, rf, mc, cam, ag, bg, gs, sch>>

\* the call has returned `record`
ParserReturns(parser, sheet_key, payload, record) ==
    /\ pz.calls = 0
    /\ pz' = [calls |-> 1, parser |-> parser, sheet_key |-> sheet_key,
              payload |-> payload, record |-> record]
    /\ UNCHANGED parseFrame

ParseVip ==
    \E payload \in MonthPayloads :
        ParserReturns("vip", "vip_dashboard_my", payload, process_vip_data_batch(payload))

ParseMembership ==
    \E payload \in MonthPayloads :
        ParserReturns("membership", "membership_dashboard_my", payload,
                      process_membership_data_batch(payload))

ParseFunnel ==
    \E sheet_key \in FunnelKeys :
        \E payload \in FunnelPayloads(sheet_key) :
            ParserReturns("funnel", sheet_key, payload,
                          process_funnel_data_batch(payload, sheet_key))

ParseVelocity ==
    \E payload \in VelocityPayloads :
        ParserReturns("velocity", "sales_velocity_my", payload,
                      process_velocity_data_batch(payload))

\* a caller of find_month_columns_batch(header_row)
FindMonthColumnsCall ==
    \E header_row \in HeaderRows :
        ParserReturns("month_columns", "none", header_row,
                      find_month_columns_batch(header_row))

NextParse ==
    \/ ParseVip
    \/ ParseMembership
    \/ ParseFunnel
    \/ ParseVelocity
    \/ FindMonthColumnsCall

SpecParse == InitMetric /\ [][NextParse]_vars

-----------------------------------------------------------------------------
(* Dashboard data: the countries' records and the regional roll-up *)

\* dict.get(key, default)
DictGetOr(dict, key, default) ==
    IF key \in DictKeys(dict) THEN DictValue(dict, key) ELSE default

\* s.upper(), for the letters of the sheet keys' last part
LowerLetters == <<"m", "y", "p", "h", "t">>
UpperLetters == <<"M", "Y", "P", "H", "T">>
UpperChar(c) ==
    IF \E l \in 1..Len(LowerLetters) : LowerLetters[l] = c
    THEN UpperLetters[CHOOSE l \in 1..Len(LowerLetters) : LowerLetters[l] = c]
    ELSE c
upper(s) == [i \in 1..Len(s) |-> UpperChar(s[i])]

\* s.split('_')[-1]: what follows the last '_'
RECURSIVE LastPart(_)
LastPart(s) ==
    IF Contains(<<"_">>, s) THEN LastPart(Tail(s)) ELSE s

\* config.get('country'), or the last part of the sheet key in capitals
CountryOf(sheet_key, config) ==
    IF config.country # <<>> THEN config.country
    ELSE IF Contains(<<"_">>, sheet_key) THEN upper(LastPart(sheet_key))
    ELSE upper(sheet_key)

\* (part / total * 100) if total > 0 else 0
Percentage(part, total) ==
    IF Positive(total) THEN Times(Divide(part, total), PyInt(100)) ELSE PyInt(0)

\* strftime('%B') of the month a label '%B %Y' names
MonthOnly(month) == MonthNames[strptime_BY(month).month]

\* prepare_dashboard_data, vip: month_data with the percentages and the label
CountryVipMonth(month, month_data) ==
    LET total_deals == DictGetOr(month_data, "total_deals", PyInt(0))
        onsite == Percentage(DictGetOr(month_data, "onsite_vip_deals", PyInt(0)), total_deals)
        remote == Percentage(DictGetOr(month_data, "remote_vip_deals", PyInt(0)), total_deals)
    IN  DictSet(DictSet(DictSet(DictSet(month_data,
            "onsite_vip_percentage", onsite),
            "remote_vip_percentage", remote),
            "total_vip_percentage", Plus(onsite, remote)),
            "month_label", MonthOnly(month))

\* prepare_dashboard_data, membership: month_data with the rate and the label
CountryMembershipMonth(month, month_data) ==
    LET total_deals == DictGetOr(month_data, "total_deals", PyInt(0))
        members == Plus(DictGetOr(month_data, "membership_1", PyInt(0)),
                        DictGetOr(month_data, "membership_2", PyInt(0)))
    IN  DictSet(DictSet(month_data,
            "membership_attachment_rate", Percentage(members, total_deals)),
            "month_label", MonthOnly(month))

\* the data dictionary calculate_metric reads, from a raw_data dict
DataDictOf(raw_data) ==
    [f \in Fields |-> IF f \in DictKeys(raw_data) THEN DictValue(raw_data, f) ELSE Missing]

\* calculate_all_metrics_for_category(data_dict, category): the values by metric key
calculate_all_metrics_for_category(raw_data, category) ==
    [m \in {x \in MetricKeys : METRICS_CONFIG[x].category = category} |->
        calculate_metric(DataDictOf(raw_data), m)]

\* the entry of a country after the sheet `data` of `category` was processed
CountryEntry(category, data) ==
    LET metrics == calculate_all_metrics_for_category(data.raw_data, category)
        months == data.monthly_data
    IN  CASE category = "vip" ->
                [metrics |-> metrics,
                 monthly_data |-> [i \in 1..Len(months) |->
                     [key |-> months[i].key,
                      val |-> CountryVipMonth(months[i].key, months[i].val)]]]
          [] category = "membership" ->
                [metrics |-> metrics,
                 monthly_data |-> [i \in 1..Len(months) |->
                     [key |-> months[i].key,
                      val |-> CountryMembershipMonth(months[i].key, months[i].val)]]]
          [] category = "funnel" -> [metrics |-> metrics, table_data |-> data.table_data]
          [] OTHER -> [metrics |-> metrics, weekly_data |-> data.weekly_data]

\* 1. the initial dashboard_data
InitialDashboard ==
    [vip |-> [regional |-> [monthly_data |-> EmptyDict], countries |-> EmptyDict],
     funnel |-> [regional |-> [metrics |-> EmptyDict], countries |-> EmptyDict],
     velocity |-> [regional |-> [metrics |-> EmptyDict, weekly_data |-> <<>>],
                   countries |-> EmptyDict],
     membership |-> [regional |-> [monthly_data |-> EmptyDict], countries |-> EmptyDict]]

\* 2. the loop over all_sheets_data.items() from item i on
RECURSIVE PrepareSheets(_, _, _)
PrepareSheets(all_sheets_data, i, dashboard_data) ==
    IF i > Len(all_sheets_data) THEN dashboard_data
    ELSE LET sheet_key == all_sheets_data[i].key
             data == all_sheets_data[i].val
             category == data.config.category
             country == CountryOf(sheet_key, data.config)
         IN  IF category = "None"
             THEN PrepareSheets(all_sheets_data, i + 1, dashboard_data)
             ELSE PrepareSheets(all_sheets_data, i + 1,
                     [dashboard_data EXCEPT ![category].countries =
                         DictSet(@, country, CountryEntry(category, data))])

\* a regional month before any country was added
ZeroMonth(keys) == [i \in 1..Len(keys) |-> [key |-> keys[i], val |-> PyInt(0)]]

\* variant: a country's counts replace the regional counts of the month
AddMonth_Replaces(regional, month, month_data, keys) ==
    DictSet(regional, month,
        [i \in 1..Len(keys) |->
            [key |-> keys[i], val |-> DictGetOr(month_data, keys[i], PyInt(0))]])

\* regional[month][key] += month_data.get(key, 0) for the keys of the category
AddMonth(regional, month, month_data, keys) ==
    LET sums == DictGetOr(regional, month, ZeroMonth(keys))
    IN  DictSet(regional, month,
            [i \in 1..Len(keys) |->
                [key |-> keys[i],
                 val |-> Plus(sums[i].val, DictGetOr(month_data, keys[i], PyInt(0)))]])

\* the months of one country, from item i on
RECURSIVE AddCountryMonths(_, _, _, _)
AddCountryMonths(regional, monthly_data, i, keys) ==
    IF i > Len(monthly_data) THEN regional
    ELSE AddCountryMonths(AddMonth(regional, monthly_data[i].key, monthly_data[i].val, keys),
                          monthly_data, i + 1, keys)

\* the loop over dashboard_data[category]['countries'].values(), from country c on
RECURSIVE RegionalSums(_, _, _, _)
RegionalSums(countries, c, regional, keys) ==
    IF c > Len(countries) THEN regional
    ELSE RegionalSums(countries, c + 1,
                      AddCountryMonths(regional, countries[c].val.monthly_data, 1, keys), keys)

VipKeys == <<"total_deals", "onsite_vip_deals", "remote_vip_deals">>
MembershipKeys == <<"total_deals", "membership_1", "membership_2">>

\* the percentages of a regional vip month, from its sums
RegionalVipMonth(month, data) ==
    LET total_deals == DictValue(data, "total_deals")
        onsite == Percentage(DictValue(data, "onsite_vip_deals"), total_deals)
        remote == Percentage(DictValue(data, "remote_vip_deals"), total_deals)
    IN  data \o <<[key |-> "onsite_vip_percentage", val |-> onsite],
                  [key |-> "remote_vip_percentage", val |-> remote],
                  [key |-> "total_vip_percentage", val |-> Plus(onsite, remote)],
                  [key |-> "month_label", val |-> MonthOnly(month)]>>

\* the attachment rate of a regional membership month, from its sums
RegionalMembershipMonth(month, data) ==
    LET total_deals == DictValue(data, "total_deals")
        members == Plus(DictValue(data, "membership_1"), DictValue(data, "membership_2"))
    IN  data \o <<[key |-> "membership_attachment_rate",
                   val |-> Percentage(members, total_deals)],
                  [key |-> "month_label", val |-> MonthOnly(month)]>>

\* regional monthly_data of vip: sums, percentages, newest month first
RegionalVip(countries) ==
    LET sums == RegionalSums(countries, 1, EmptyDict, VipKeys)
    IN  SortedMonths([i \in 1..Len(sums) |->
            [key |-> sums[i].key, val |-> RegionalVipMonth(sums[i].key, sums[i].val)]])

\* regional monthly_data of membership
RegionalMembership(countries) ==
    LET sums == RegionalSums(countries, 1, EmptyDict, MembershipKeys)
    IN  SortedMonths([i \in 1..Len(sums) |->
            [key |-> sums[i].key, val |-> RegionalMembershipMonth(sums[i].key, sums[i].val)]])

\* the order of str on the characters of a week label
CharOrder == <<" ", "-", "/", "0", "1", "2", "3", "4", "5", "6", "7", "8", "9">>
CharRank(c) == CHOOSE i \in 1..Len(CharOrder) : CharOrder[i] = c

\* a < b for two str
RECURSIVE StrLess(_, _)
StrLess(a, b) ==
    IF b = <<>> THEN FALSE
    ELSE IF a = <<>> THEN TRUE
    ELSE IF Head(a) = Head(b) THEN StrLess(Tail(a), Tail(b))
    ELSE CharRank(Head(a)) < CharRank(Head(b))

\* the group keys of groupby('week_range'), sorted
RECURSIVE SortedLabels(_)
SortedLabels(labels) ==
    IF labels = {} THEN <<>>
    ELSE LET least == CHOOSE x \in labels : \A y \in labels \ {x} : StrLess(x, y)
         IN  <<least>> \o SortedLabels(labels \ {least})

\* sum of a column
RECURSIVE SumColumn(_)
SumColumn(values) ==
    IF values = <<>> THEN PyInt(0) ELSE Plus(Head(values), SumColumn(Tail(values)))

\* Series.mean() of a numeric column without NaN
Mean(values) == Divide(SumColumn(values), PyInt(Len(values)))

\* variant: a week's group is every record, whatever its week_range
GroupValues_AllRecords(all_country_weeks, week_range, col) ==
    [i \in 1..Len(all_country_weeks) |-> DictValue(all_country_weeks[i], col)]

\* the column col of the records of the group week_range
GroupValues(all_country_weeks, week_range, col) ==
    LET group == SelectSeq(all_country_weeks,
                           LAMBDA r : DictValue(r, "week_range") = week_range)
    IN  [i \in 1..Len(group) |-> DictValue(group[i], col)]

\* df.columns without 'week_range'
MetricColumns(all_country_weeks) ==
    LET first == all_country_weeks[1]
        cols == SelectSeq(first, LAMBDA item : item.key # "week_range")
    IN  [i \in 1..Len(cols) |-> cols[i].key]

\* df.groupby('week_range').mean().reset_index().to_dict('records')
RegionalWeekly(all_country_weeks) ==
    LET labels == SortedLabels({DictValue(all_country_weeks[i], "week_range") :
                                    i \in 1..Len(all_country_weeks)})
        cols == MetricColumns(all_country_weeks)
    IN  [w \in 1..Len(labels) |->
            <<[key |-> "week_range", val |-> labels[w]]>>
            \o [j \in 1..Len(cols) |->
                   [key |-> cols[j],
                    val |-> Mean(GroupValues(all_country_weeks, labels[w], cols[j]))]]]

\* regional_velocity_metrics: the mean of each column of regional_weekly_df
RegionalVelocityMetrics(all_country_weeks, regional_weekly) ==
    LET cols == MetricColumns(all_country_weeks)
    IN  [j \in 1..Len(cols) |->
            [key |-> cols[j] \o "_avg",
             val |-> Mean([w \in 1..Len(regional_weekly) |->
                              DictValue(regional_weekly[w], cols[j])])]]

\* all_country_weeks: the weekly_data of the countries, one after another
RECURSIVE AllCountryWeeks(_)
AllCountryWeeks(countries) ==
    IF countries = <<>> THEN <<>>
    ELSE Head(countries).val.weekly_data \o AllCountryWeeks(Tail(countries))

\* aggregate_regional_data(dashboard_data)
aggregate_regional_data(dashboard_data) ==
    LET all_country_weeks == AllCountryWeeks(dashboard_data.velocity.countries)
        regional_weekly == RegionalWeekly(all_country_weeks)
    IN  [dashboard_data EXCEPT
            !.vip.regional.monthly_data = RegionalVip(dashboard_data.vip.countries),
            !.velocity.regional =
                IF all_country_weeks # <<>>
                THEN [metrics |-> RegionalVelocityMetrics(all_country_weeks, regional_weekly),
                      weekly_data |-> regional_weekly]
                ELSE @,
            !.membership.regional.monthly_data =
                RegionalMembership(dashboard_data.membership.countries)]

\* prepare_dashboard_data(all_sheets_data)
prepare_dashboard_data(all_sheets_data) ==
    aggregate_regional_data(PrepareSheets(all_sheets_data, 1, InitialDashboard))

-----------------------------------------------------------------------------
(* Callers of prepare_dashboard_data *)

\* the months a country may report, and the weekly records it may hold
MaxMonths == 2
MaxWeeks == 2

\* month labels, newest first
Months == [i \in 1..MaxMonths |-> strftime_BY(2025, 6 - i)]

\* total and the two sub-counts of a month
DealCounts == <<<<0, 0, 0>>, <<10, 4, 1>>, <<30, 3, 0>>>>

\* a monthly record as the month parsers build it
MonthData(month, counts, keys) ==
    [i \in 1..Len(keys) |-> [key |-> keys[i], val |-> PyFloat(counts[i], 1)]]
    \o <<[key |-> "month_label", val |-> MonthLabel(month, "V")]>>

\* the monthly_data of a sheet: each month absent (0) or with one of the counts
RECURSIVE MonthlyOf(_, _, _)
MonthlyOf(choice, i, keys) ==
    IF i > MaxMonths THEN EmptyDict
    ELSE (IF choice[i] = 0 THEN <<>>
          ELSE <<[key |-> Months[i], val |-> MonthData(Months[i], DealCounts[choice[i]], keys)]>>)
         \o MonthlyOf(choice, i + 1, keys)

MonthlyDatas(keys) ==
    {MonthlyOf(choice, 1, keys) : choice \in [1..MaxMonths -> 0..Len(DealCounts)]}

NoCountry == <<>>

\* an item of all_sheets_data
Sheet(sheet_key, category, country, raw_data, monthly_data, weekly_data, table_data) ==
    [key |-> sheet_key,
     val |-> [config |-> [category |-> category, country |-> country],
              raw_data |-> raw_data, monthly_data |-> monthly_data,
              weekly_data |-> weekly_data, table_data |-> table_data]]

\* a sheet of a month category, its raw_data the newest month
MonthSheet(sheet_key, category, country, monthly_data) ==
    Sheet(sheet_key, category, country, MonthResult(monthly_data).raw_data,
          monthly_data, <<>>, <<>>)

VipSheets(my, ph) ==
    <<MonthSheet(<<"v", "i", "p", "_", "d", "a", "s", "h", "b", "o", "a", "r", "d", "_", "m", "y">>, "vip", <<"M", "Y">>, my),
      MonthSheet(<<"v", "i", "p", "_", "d", "a", "s", "h", "b", "o", "a", "r", "d", "_", "p", "h">>, "vip", NoCountry, ph)>>

MembershipSheets(my, ph) ==
    <<MonthSheet(<<"m", "e", "m", "b", "e", "r", "s", "h", "i", "p", "_", "d", "a", "s", "h", "b", "o", "a", "r", "d", "_", "m", "y">>, "membership", NoCountry, my),
      MonthSheet(<<"m", "e", "m", "b", "e", "r", "s", "h", "i", "p", "_", "d", "a", "s", "h", "b", "o", "a", "r", "d", "_", "p", "h">>, "membership", <<"P", "H">>, ph)>>

\* a weekly record: the six metrics are v, 2v, ... 6v
WeekRecord(week_range, v) ==
    <<[key |-> "week_range", val |-> week_range]>>
    \o [i \in 1..Len(VelocityColumns) |->
           [key |-> VelocityColumns[i].key, val |-> PyFloat(v * i, 1)]]

\* a week after the ones the parser harness reads
WeekLater == <<"1", "2", "/", "0", "5", "/", "2", "0", "2", "5", " ", "-", " ", "1", "8", "/", "0", "5", "/", "2", "0", "2", "5">>
WeekRecords ==
    {WeekRecord(WeekStart, v) : v \in {2, 12}}
        \cup {WeekRecord(w, 2) : w \in {strip(WeekMay), WeekLater}}
WeeklyDatas == SeqsUpTo(WeekRecords, MaxWeeks)

VelocitySheet(sheet_key, country, weekly_data) ==
    Sheet(sheet_key, "velocity", country, Averages(weekly_data), EmptyDict, weekly_data, <<>>)

VelocitySheets(my, ph) ==
    <<VelocitySheet(<<"s", "a", "l", "e", "s", "_", "v", "e", "l", "o", "c", "i", "t", "y", "_", "m", "y">>, <<"M", "Y">>, my),
      VelocitySheet(<<"s", "a", "l", "e", "s", "_", "v", "e", "l", "o", "c", "i", "t", "y", "_", "p", "h">>, NoCountry, ph)>>

\* a funnel sheet, and an entry whose config names no category
FunnelSheets ==
    <<Sheet(<<"s", "a", "l", "e", "s", "_", "f", "u", "n", "n", "e", "l", "_", "m", "y">>, "funnel", NoCountry, EmptyDict, EmptyDict, <<>>, <<>>),
      Sheet(<<"n", "o", "t", "e", "s">>, "None", NoCountry, EmptyDict, EmptyDict, <<>>, <<>>)>>

\* the all_sheets_data of a caller that has the sheets of every category
MixedSheets(vip, weekly_data) ==
    VipSheets(vip, vip) \o FunnelSheets \o VelocitySheets(weekly_data, <<>>)
    \o MembershipSheets(MonthlyOf([i \in 1..MaxMonths |-> 1], 1, MembershipKeys), EmptyDict)

aggregateFrame ==
    <<now, cache, last_api_call_time, last_error, sheets, budget, pc, cur, attempt, wake,
      all_data, passes, pre, outcome, probe, batch, gated, calls, gate_obs, pass_fail,
      prev_fail, cw, cr, ticks, bo, obj, rf, mc, cam, pz, bg, gs, sch>>

\* all_sheets_data as the call leaves it: the loops over monthly_data.items()
\* assign into the month_data dicts of the sheets that have a category
\* (month_data[...] = ...), which are the dicts of the argument
SheetsAfter(all_sheets_data) ==
    [i \in 1..Len(all_sheets_data) |->
        LET data == all_sheets_data[i].val
            category == data.config.category
            months == data.monthly_data
        IN  IF category \in {"vip", "membership"}
            THEN [key |-> all_sheets_data[i].key,
                  val |-> [data EXCEPT !.monthly_data =
                              [j \in 1..Len(months) |->
                                  [key |-> months[j].key,
                                   val |-> IF category = "vip"
                                           THEN CountryVipMonth(months[j].key, months[j].val)
                                           ELSE CountryMembershipMonth(months[j].key,
                                                                       months[j].val)]]]]
            ELSE all_sheets_data[i]]

\* prepare_dashboard_data(all_sheets_data) has returned
DashboardReturns(all_sheets_data) ==
    /\ ~ag.valid
    /\ ag' = [valid |-> TRUE, all_sheets_data |-> all_sheets_data,
              after |-> SheetsAfter(all_sheets_data),
              dashboard_data |-> prepare_dashboard_data(all_sheets_data)]
    /\ UNCHANGED aggregateFrame

\* the callers of prepare_dashboard_data: all_sheets_data holds the sheets of
\* one category, or of all
PrepareVip ==
    \E my, ph \in MonthlyDatas(VipKeys) : DashboardReturns(VipSheets(my, ph))

PrepareMembership ==
    \E my, ph \in MonthlyDatas(MembershipKeys) : DashboardReturns(MembershipSheets(my, ph))

PrepareVelocity ==
    \E my, ph \in WeeklyDatas : DashboardReturns(VelocitySheets(my, ph))

PrepareAll ==
    \E vip \in MonthlyDatas(VipKeys), weekly_data \in WeeklyDatas :
        DashboardReturns(MixedSheets(vip, weekly_data))

NextAggregate == PrepareVip \/ PrepareMembership \/ PrepareVelocity \/ PrepareAll

SpecAggregate == InitMetric /\ [][NextAggregate]_vars

-----------------------------------------------------------------------------
(* batch_get_all_sheet_data on a ranges_dict: the ranges of all data types  *)
(* are flattened, read in one batch_get and put back by type and position   *)

\* bounds: data types of a ranges_dict, ranges of a data type
MaxTypes == 2
MaxRanges == 2

\* all_ranges: the ranges of every data type, in the order of ranges_dict.items()
FlattenRanges(ranges_dict) ==
    Flatten([t \in 1..Len(ranges_dict) |-> ranges_dict[t].val])

\* range_mapping: for each position of all_ranges, the (data_type, i) it came from
RECURSIVE RangeMappingFrom(_, _)
RangeMappingFrom(ranges_dict, t) ==
    IF t > Len(ranges_dict) THEN <<>>
    ELSE [i \in 1..Len(ranges_dict[t].val) |->
             [data_type |-> ranges_dict[t].key, original_range_idx |-> i - 1]]
         \o RangeMappingFrom(ranges_dict, t + 1)

\* variant: the slot of a block is its position in all_ranges
OriginalRangeIdx_Flat(range_mapping, range_idx) == range_idx

\* data_type, original_range_idx = range_mapping[range_idx]
OriginalRangeIdx(range_mapping, range_idx) ==
    range_mapping[range_idx + 1].original_range_idx

\* while len(result[data_type]) <= original_range_idx: result[data_type].append([])
PadTo(list, original_range_idx) ==
    IF Len(list) <= original_range_idx
    THEN list \o [k \in 1..(original_range_idx + 1 - Len(list)) |-> <<>>]
    ELSE list

\* the loop over enumerate(batch_data) from range_idx (0-based) on
RECURSIVE OrganizeResults(_, _, _, _)
OrganizeResults(batch_data, range_idx, range_mapping, result) ==
    IF range_idx >= Len(batch_data) THEN result
    ELSE IF range_idx < Len(range_mapping)
         THEN LET data_type == range_mapping[range_idx + 1].data_type
                  original_range_idx == OriginalRangeIdx(range_mapping, range_idx)
                  padded == PadTo(DictValue(result, data_type), original_range_idx)
              IN  OrganizeResults(batch_data, range_idx + 1, range_mapping,
                      DictSet(result, data_type,
                          [padded EXCEPT ![original_range_idx + 1] = batch_data[range_idx + 1]]))
         ELSE OrganizeResults(batch_data, range_idx + 1, range_mapping, result)

\* result = {data_type: [] for data_type in ranges_dict.keys()}
EmptyResult(ranges_dict) ==
    [t \in 1..Len(ranges_dict) |-> [key |-> ranges_dict[t].key, val |-> <<>>]]

\* what the call returns once batch_get has answered with batch_data
BatchResultOf(ranges_dict, batch_data) ==
    OrganizeResults(batch_data, 0, RangeMappingFrom(ranges_dict, 1), EmptyResult(ranges_dict))

\* worksheet.batch_get(all_ranges): one value range per requested range, in order
RangeNames == {"V1", "V2"}
CellsOf(range_str) == << <<range_str>> >>
batch_get(all_ranges) == [k \in 1..Len(all_ranges) |-> CellsOf(all_ranges[k])]

\* the ranges_dict a caller passes
DataTypes == <<"header", "vip_data", "funnel_data">>
RangeLists == SeqsUpTo(RangeNames, MaxRanges)
TypeOrders ==
    {order \in SeqsUpTo(1..Len(DataTypes), MaxTypes) :
        \A i, j \in 1..Len(order) : i # j => order[i] # order[j]}
RangesDicts ==
    UNION {{[t \in 1..Len(order) |-> [key |-> DataTypes[order[t]], val |-> lists[t]]] :
               lists \in [1..Len(order) -> RangeLists]} : order \in TypeOrders}

\* how the attempt after the rate-limited ones ends
AttemptEnds == {"read", "no_worksheet", "api_error"}

\* the clock after the gate of _get_worksheet
AfterGateClock(clock) ==
    LET w == rate_limit_wake(clock.now, clock.last_api_call_time)
    IN  [now |-> w, last_api_call_time |-> w]

\* the clock after `limited` attempts that were rate limited and backed off
RECURSIVE AfterLimited(_, _, _)
AfterLimited(clock, a, limited) ==
    IF a >= limited THEN clock
    ELSE LET gate == AfterGateClock(clock)
         IN  AfterLimited([gate EXCEPT !.now = IF a < max_retries - 1
                                                THEN @ + exponential_backoff(a) ELSE @],
                          a + 1, limited)

batchFrame ==
    <<cache, sheets, budget, pc, cur, attempt, wake, all_data, passes, pre, outcome, probe,
      batch, gated, calls, gate_obs, pass_fail, prev_fail, cw, cr, ticks, bo, obj, rf, mc,
      cam, pz, ag, gs, sch>>

\* a caller of batch_get_all_sheet_data(sheet_id, worksheet_name, ranges_dict):
\* the first `limited` attempts are rate limited; unless they were max_retries,
\* the next attempt ends as `ends` (or returns {} before the read: no ranges)
BatchGetAll ==
    /\ ~bg.valid
    /\ \E ranges_dict \in RangesDicts, limited \in 0..max_retries, ends \in AttemptEnds :
          LET all_ranges == FlattenRanges(ranges_dict)
              exhausted == limited = max_retries
              last == IF exhausted THEN "rate_limited"
                      ELSE IF ends = "no_worksheet" THEN ends
                      ELSE IF all_ranges = <<>> THEN "no_ranges"
                      ELSE ends
              reads == limited + (IF last \in {"read", "api_error"} THEN 1 ELSE 0)
              limited_clock == AfterLimited([now |-> now,
                                             last_api_call_time |-> last_api_call_time],
                                            0, limited)
              clock == IF exhausted THEN limited_clock ELSE AfterGateClock(limited_clock)
          IN  /\ limited > 0 => all_ranges # <<>>
              /\ exhausted => ends = "read"
              /\ bg' = [valid |-> TRUE, ranges_dict |-> ranges_dict, ends |-> last,
                        requests |-> [k \in 1..reads |-> all_ranges],
                        result |-> IF last = "read"
                                   THEN BatchResultOf(ranges_dict, batch_get(all_ranges))
                                   ELSE EmptyDict]
              /\ now' = clock.now
              /\ last_api_call_time' = clock.last_api_call_time
              /\ last_error' =
                    IF last = "api_error" THEN record_error("API_ERROR", ServerErrorMsg)
                    ELSE IF limited > 0 THEN record_error("RATE_LIMIT", RateLimitMsg)
                    ELSE last_error
    /\ UNCHANGED batchFrame

NextBatch == BatchGetAll

SpecBatch == InitMetric /\ [][NextBatch]_vars

-----------------------------------------------------------------------------
(* get_sheet_data(sheet_key): one source read outside a pass *)

\* the {} that get_sheet_data returns from its outer handlers
EmptyMapping == [empty |-> TRUE]

\* a key that GOOGLE_SHEETS_CONFIG['sheets'] does not have
UnknownKey == "not_configured"

\* what happens after a strict cache miss: _get_worksheet returns None, the
\* parser returns a record, or an exception reaches the inner handler
AfterMiss == {"no_worksheet", "parsed", "raises"}

InitGet ==
    /\ InitCommon
    /\ sheets = ConfigOrder
    /\ budget = [t \in Threads |-> 0]
    /\ cache \in InitialCaches(sheets)

getFrame ==
    <<last_error, sheets, budget, pc, cur, attempt, wake, all_data, passes, pre, outcome,
      probe, batch, gated, calls, gate_obs, pass_fail, prev_fail, cw, cr, ticks, bo, obj,
      rf, mc, cam, pz, ag, bg, sch>>

\* get_sheet_data(sheet_key) has returned ret at the clock given
GetReturns(sheet_key, ends, ret, clock, files) ==
    /\ gs' = [valid |-> TRUE, sheet_key |-> sheet_key, ends |-> ends, ret |-> ret]
    /\ now' = clock.now
    /\ last_api_call_time' = clock.last_api_call_time
    /\ cache' = files
    /\ UNCHANGED getFrame

\* a caller of get_sheet_data(sheet_key)
GetSheetData ==
    /\ ~gs.valid
    /\ \E sheet_key \in SheetKeys \cup {UnknownKey}, after \in AfterMiss, c \in Contents :
          LET first == AfterGateClock([now |-> now, last_api_call_time |-> last_api_call_time])
          IN  IF sheet_key \notin SheetKeys
              THEN \* KeyError, caught by `except Exception`: GENERAL_ERROR, return {}
                   /\ gs' = [valid |-> TRUE, sheet_key |-> sheet_key, ends |-> "key_error",
                             ret |-> EmptyMapping]
                   /\ now' = first.now
                   /\ last_api_call_time' = first.last_api_call_time
                   /\ last_error' = record_error("GENERAL_ERROR", {sheet_key})
                   /\ UNCHANGED <<cache, sheets, budget, pc, cur, attempt, wake, all_data,
                                  passes, pre, outcome, probe, batch, gated, calls, gate_obs,
                                  pass_fail, prev_fail, cw, cr, ticks, bo, obj, rf, mc, cam,
                                  pz, ag, bg, sch>>
              ELSE LET cache_key == CacheKeyOf(sheet_key)
                       cached_data == get_cached_data(cache, cache_key, FALSE, first.now)
                       opened == AfterGateClock(AfterGateClock(first))
                       fallback == get_cached_data(cache, cache_key, TRUE, opened.now)
                       data == Record(c)
                   IN  IF Truthy(cached_data)
                       THEN GetReturns(sheet_key, "hit", cached_data, first, cache)
                       ELSE CASE after = "no_worksheet" ->
                                     GetReturns(sheet_key, after, None, opened, cache)
                              [] after = "parsed" ->
                                     GetReturns(sheet_key, after, data, opened,
                                                cache_dump(cache, cache_key, data,
                                                           CACHE_DURATION, opened.now))
                              [] OTHER ->
                                     GetReturns(sheet_key, after,
                                                IF Truthy(fallback) THEN fallback ELSE None,
                                                opened, cache)

NextGet == GetSheetData

SpecGet == InitGet /\ [][NextGet]_vars

-----------------------------------------------------------------------------
(* The ranges the month parsers request *)

\* the end of range(22, 46)
LastMonthColumn == 46

\* the rows requested of each column: header, total_deals and the two
\* sub-metrics of the category
VipRows == <<1, 2, 28, 30>>
MembershipRows(title) == IF title = "TH" THEN <<1, 2, 30, 31>> ELSE <<1, 2, 43, 44>>

\* month_ranges: four ranges for every col_idx in range(22, 46)
MonthRanges(rows) ==
    [k \in 1..((LastMonthColumn - FirstMonthColumn) * 4) |->
        index_to_column_letter(FirstMonthColumn + ((k - 1) \div 4))
            \o ToString(rows[((k - 1) % 4) + 1])]

\* the month_ranges of a call of a month parser on the worksheet of sheet_key
MonthRangesOf(parser, sheet_key) ==
    IF parser = "vip" THEN MonthRanges(VipRows)
    ELSE MonthRanges(MembershipRows(GOOGLE_SHEETS_CONFIG[sheet_key].worksheet_name))

\* the column letters of the ranges requested
RequestedColumns ==
    {index_to_column_letter(col_idx) : col_idx \in FirstMonthColumn..(LastMonthColumn - 1)}

-----------------------------------------------------------------------------
(* The refresh scheduler: DataRefreshScheduler, its loop threads, and the    *)
(* sessions whose RegionalDashboard.run starts it                            *)

MaxReruns == 5
MaxStarts == 3
MaxStops == 2

\* DASHBOARD_CONFIG['refresh_times']
refresh_times == <<"10:00", "16:00">>

\* DataRefreshScheduler(refresh_callback) assigned to scheduler_instance
DataRefreshScheduler(s, refresh_callback) ==
    [s EXCEPT !.instance = TRUE, !.refresh_callback = refresh_callback,
              !.is_running = FALSE, !.scheduler_thread = 0]

\* start_scheduler: setup_schedule() clears the schedule and adds a job per
\* refresh time; a daemon thread is started on run_scheduler
start_scheduler(s) ==
    IF ~s.is_running
    THEN [s EXCEPT !.jobs = Len(refresh_times), !.is_running = TRUE,
                   !.threads = Append(@, "polling"),
                   !.scheduler_thread = Len(s.threads) + 1]
    ELSE s

\* stop_scheduler: join(timeout=5) returns when the thread has left its loop
\* (`left`) or after 5 seconds, the thread still in time.sleep(60)
stop_scheduler(s, left) ==
    [s EXCEPT !.is_running = FALSE,
              !.threads = IF s.scheduler_thread # 0
                             /\ (@[s.scheduler_thread] = "polling"
                                 \/ (@[s.scheduler_thread] = "sleeping" /\ left))
                          THEN [@ EXCEPT ![s.scheduler_thread] = "exited"]
                          ELSE @,
              !.jobs = 0]

\* get_scheduler
get_scheduler(s, refresh_callback) ==
    IF ~s.instance THEN DataRefreshScheduler(s, refresh_callback) ELSE s

\* start_background_scheduler
start_background_scheduler(s, refresh_callback) ==
    start_scheduler(get_scheduler(s, refresh_callback))

\* the loop threads that have not left run_scheduler
AliveLoops(s) == {i \in 1..Len(s.threads) : s.threads[i] # "exited"}

schedulerFrame ==
    <<now, last_api_call_time, last_error, sheets, budget, pc, cur, attempt, wake, all_data,
      passes, pre, outcome, probe, batch, gated, calls, gate_obs, pass_fail, prev_fail, cw,
      cr, ticks, bo, obj, rf, mc, cam, pz, ag, bg, gs>>

\* a script run of session x reaches RegionalDashboard(): __init__, lines 290-295
NewDashboard(x) ==
    /\ sch.session[x].dashboards = sch.session[x].runs
    /\ sch.session[x].dashboards < MaxReruns
    /\ sch' = [sch EXCEPT !.session[x].dashboards = @ + 1,
                          !.session[x].scheduler_started =
                              IF @ = "absent" THEN "False" ELSE @]
    /\ UNCHANGED <<cache, schedulerFrame>>

\* the script run goes on with dashboard.run(): lines 1016-1023
Run(x) ==
    /\ sch.session[x].runs < sch.session[x].dashboards
    /\ LET started == IF sch.session[x].scheduler_started = "absent"
                      THEN start_background_scheduler(sch, "clear_all_cache")
                      ELSE sch
       IN  sch' = [started EXCEPT !.session[x].runs = @ + 1,
                                  !.session[x].scheduler_started =
                                      IF @ = "absent" THEN "True" ELSE @,
                                  !.starts = IF sch.session[x].scheduler_started = "absent"
                                             THEN @ + 1 ELSE @]
    /\ UNCHANGED <<cache, schedulerFrame>>

NextSession == \E x \in Sessions : NewDashboard(x) \/ Run(x)

SpecSession == InitMetric /\ [][NextSession]_vars

\* a caller constructs the DataRefreshScheduler
NewScheduler ==
    /\ ~sch.instance
    /\ \E refresh_callback \in {"None", "clear_all_cache"} :
          sch' = DataRefreshScheduler(sch, refresh_callback)
    /\ UNCHANGED <<cache, schedulerFrame>>

\* a caller of start_scheduler()
StartScheduler ==
    /\ sch.instance
    /\ sch.starts < MaxStarts
    /\ sch' = [start_scheduler(sch) EXCEPT !.starts = @ + 1]
    /\ UNCHANGED <<cache, schedulerFrame>>

\* a caller of stop_scheduler()
StopScheduler ==
    /\ sch.instance
    /\ sch.stops < MaxStops
    /\ \E left \in BOOLEAN : sch' = [stop_scheduler(sch, left) EXCEPT !.stops = @ + 1]
    /\ UNCHANGED <<cache, schedulerFrame>>

\* run_scheduler, thread i at `while self.is_running`: it leaves the loop, or
\* runs the pending jobs (refresh_data calls the callback when a job is due)
\* and goes to sleep
LoopCheck(i) ==
    /\ i <= Len(sch.threads)
    /\ sch.threads[i] = "polling"
    /\ IF sch.is_running
       THEN /\ sch' = [sch EXCEPT !.threads[i] = "sleeping"]
            /\ \E due \in BOOLEAN :
                  cache' = IF due /\ sch.jobs > 0 /\ sch.refresh_callback = "clear_all_cache"
                           THEN clear_all_cache(cache)
                           ELSE cache
       ELSE /\ sch' = [sch EXCEPT !.threads[i] = "exited"]
            /\ UNCHANGED cache
    /\ UNCHANGED schedulerFrame

\* run_scheduler, thread i: time.sleep(60) returns
LoopWake(i) ==
    /\ i <= Len(sch.threads)
    /\ sch.threads[i] = "sleeping"
    /\ sch' = [sch EXCEPT !.threads[i] = "polling"]
    /\ UNCHANGED <<cache, schedulerFrame>>

InitLoop ==
    /\ InitCommon
    /\ sheets = OneSource
    /\ budget = [t \in Threads |-> 0]
    /\ cache \in InitialCaches(sheets)

NextLoop ==
    \/ NewScheduler
    \/ StartScheduler
    \/ StopScheduler
    \/ \E i \in 1..MaxStarts : LoopCheck(i) \/ LoopWake(i)

SpecLoop == InitLoop /\ [][NextLoop]_vars

-----------------------------------------------------------------------------
(* Properties *)

\* the thread's latest pass has returned its all_data
Returned(t) == pc[t] = "idle" /\ passes[t] > 0

Configured == {sheets[i] : i \in 1..Len(sheets)}

\* the live fetch of source k failed in the pass of thread t
FetchFailed(t, k) == outcome[t][k] \in {"open_failed", "fetch_failed"}

\* C1: during a pass every call to the remote source (open_by_key, worksheet
\* lookup, batch_get) is directly preceded by the minimum-delay gate, and any two
\* consecutive remote calls are at least REQUEST_DELAY apart.
C1_EveryRemoteCallGated == calls.any => (calls.gated /\ calls.gap_ok)

\* C2: when every batched read of a batch_get_all_sheet_data call answers with a
\* rate-limit error (the worksheet being opened before each read), the call makes
\* exactly 3 read attempts and returns the empty result with RATE_LIMIT recorded;
\* no call makes more than 3 read attempts.
C2_RateLimitStopsAfterThree ==
    \A t \in Threads :
        /\ batch[t].reads <= 3
        /\ (/\ batch[t].returned # "no"
            /\ ~batch[t].open_failed
            /\ batch[t].rate_limited = batch[t].reads)
           => /\ batch[t].reads = 3
              /\ batch[t].returned = "empty"
              /\ batch[t].error_type = "RATE_LIMIT"
              /\ get_last_error_info(last_error).error_type = "RATE_LIMIT"

C2_Witness ==
    \E t \in Threads :
        /\ batch[t].returned = "empty"
        /\ batch[t].rate_limited = 3
        /\ batch[t].reads = 3

\* C3: when the live fetch of a source fails during a pass and a cache entry
\* (expired) exists for its cache key, the pass returns that entry's payload for
\* the source; it returns the empty structure only when no entry exists.
C3_FailedFetchFallsBackToCache ==
    \A t \in Threads : \A k \in Configured :
        (Returned(t) /\ FetchFailed(t, k))
        => all_data[t][k] = IF pre[t][k].file = "json" THEN pre[t][k].data
                            ELSE EmptyStructure

\* C4: a failed live fetch leaves the cache file of the source exactly as it
\* was, and no pass gets a strict cache hit on an empty result.
C4_FailureLeavesCacheUntouched ==
    \A t \in Threads : \A k \in Configured :
        /\ (Returned(t) /\ FetchFailed(t, k)) => cache[CacheKeyOf(k)] = pre[t][k]
        /\ outcome[t][k] = "hit" => all_data[t][k] # EmptyParsed

C6_CacheRoundTrip ==
    (cr.valid /\ cr.file.file = "json") =>
        LET age == cr.at - cr.file.timestamp
        IN  /\ (~cr.allow_expired /\ age < cr.file.duration) => cr.ret = cr.file.data
            /\ (~cr.allow_expired /\ age >= cr.file.duration) => cr.ret = None
            /\ cr.allow_expired => cr.ret = cr.file.data

\* C7: a read that overlaps a write of the same key returns what the read would
\* have returned before the write, or the complete new payload.
C7_ReadSeesOldOrNew ==
    (cr.valid /\ cr.overlap) => cr.ret \in {cr.before, cr.after}

\* C8: no two leavings of the minimum-delay gate of one client are less than
\* REQUEST_DELAY apart, whichever threads they belong to.
C8_GateSerialisesCallers == gate_obs.any => gate_obs.gap_ok

\* C9: when a returned pass holds the empty structure for a source whose live
\* fetch failed, get_last_error_info reports a non-null error_type.
C9_FailureIsClassified ==
    \A t \in Threads :
        (Returned(t) /\ \E k \in Configured :
                            FetchFailed(t, k) /\ all_data[t][k] = EmptyStructure)
        => get_last_error_info(last_error).error_type # "None"

\* C10: after any sequence of passes get_last_error_info reports the class of
\* the most recent failed read of the latest pass, and no error when the latest
\* pass recorded none (whatever earlier passes recorded).
C10_ErrorOfLatestPass ==
    \A t \in Threads :
        Returned(t) =>
            /\ get_last_error_info(last_error).error_type = pass_fail[t]
            /\ get_last_error_info(last_error).is_rate_limit = (pass_fail[t] = "RATE_LIMIT")

C10_Witness ==
    /\ Returned("t1")
    /\ passes["t1"] >= 2
    /\ prev_fail["t1"] # "None"
    /\ pass_fail["t1"] = "None"
    /\ get_last_error_info(last_error).error_type = "None"

\* C11: when the batched read raises an API error that is not a quota error, or
\* any other exception, batch_get_all_sheet_data records API_ERROR (respectively
\* GENERAL_ERROR) and returns the empty result in the same step: no attempt and
\* no backoff wait follows that read.
C11_NoRetryOnOtherErrors ==
    \A t \in Threads :
        batch[t].raised \in {"API_ERROR", "GENERAL_ERROR"}
        => /\ batch[t].returned = "empty"
           /\ pc[t] \in {"c_open", "c_dump"}
           /\ wake[t] = 0
           /\ batch[t].reads = batch[t].rate_limited + 1
           /\ batch[t].waits = batch[t].rate_limited
           /\ get_last_error_info(last_error).error_type = batch[t].raised

C11_Witness ==
    /\ batch["t1"].raised = "GENERAL_ERROR"
    /\ batch["t1"].reads = 1
    /\ batch["t1"].returned = "empty"

\* C12: the backoff wait after failed attempt k is min(3^k, 180) seconds; the
\* waits never decrease as k grows and never exceed 180; in the retry loop a wait
\* is taken only when a further attempt follows it.
C12_BackoffDelay ==
    /\ bo.valid =>
          /\ bo.delay = (IF 3^bo.attempt < 180 THEN 3^bo.attempt ELSE 180)
          /\ bo.delay <= 180
          /\ (bo.prev.valid /\ bo.attempt >= bo.prev.attempt) => bo.delay >= bo.prev.delay
    /\ \A t \in Threads :
          /\ pc[t] = "b_backoff" =>
                /\ attempt[t] + 1 < 3
                /\ wake[t] - now = (IF 3^attempt[t] < 180 THEN 3^attempt[t] ELSE 180)
          /\ batch[t].returned # "no" => batch[t].waits = attempt[t]

C12_Witness ==
    /\ bo.valid
    /\ 3^bo.attempt > 180
    /\ bo.delay = 180
    /\ bo.prev.valid
    /\ bo.prev.attempt < bo.attempt

\* C13: for a source whose cache entry is fresh when the pass reads it, the pass
\* returns the cached payload for the source, makes no remote call for it and
\* leaves the entry (payload and timestamp) as it was.
C13_FreshHitIsLocal ==
    \A t \in Threads : \A k \in Configured :
        probe[t][k].fresh
        => /\ outcome[t][k] = "hit"
           /\ all_data[t][k] = pre[t][k].data
           /\ ~probe[t][k].remote
           /\ cache[CacheKeyOf(k)] = pre[t][k]

C13_Witness ==
    /\ Returned("t1")
    /\ Len(sheets) = 3
    /\ probe["t1"][ProcessingOrder(sheets)[2]].fresh
    /\ outcome["t1"][ProcessingOrder(sheets)[1]] = "live"
    /\ probe["t1"][ProcessingOrder(sheets)[1]].remote
    /\ outcome["t1"][ProcessingOrder(sheets)[3]] = "fetch_failed"

\* C14: with no write in progress, a strict read misses exactly when no entry
\* exists or now - timestamp >= the duration stored with the entry; a permissive
\* read misses only when no entry exists.
C14_MissByStoredDuration ==
    (cr.valid /\ cr.file.file # "partial") =>
        ((cr.ret = None) <=>
            \/ cr.file.file = "absent"
            \/ /\ ~cr.allow_expired
               /\ cr.file.file = "json"
               /\ cr.at - cr.file.timestamp >= cr.file.duration)

\* C15: every pass terminates whatever the remote source answers: a pass that
\* is under way returns; for each source it makes at most 3 batched reads and at
\* most 2 backoff waits, and every sleep ends at most 180 s after it began.
C15_PassTerminates ==
    /\ [](\A t \in Threads :
            /\ batch[t].reads <= 3
            /\ batch[t].waits <= 2
            /\ wake[t] # 0 => wake[t] - now <= 180)
    /\ \A t \in Threads : (pc[t] # "idle") ~> Returned(t)

C15_Witness ==
    /\ Len(sheets) = 2
    /\ cur["t1"] = 2
    /\ batch["t1"].reads = 3
    /\ batch["t1"].waits = 2
    /\ batch["t1"].returned = "data"

\* C16: for a source whose spreadsheet or worksheet cannot be opened (it does
\* not exist remotely) the pass makes exactly one open attempt, no batched read
\* and so no retry and no backoff wait (a wait only follows a failed read), and
\* returns the empty structure for the source.
C16_NotFoundIsNotRetried ==
    \A t \in Threads :
        /\ \A k \in Configured :
              outcome[t][k] = "open_failed"
              => /\ probe[t][k].opens = 1
                 /\ ~probe[t][k].read
                 /\ all_data[t][k] = EmptyStructure
        /\ pc[t] = "b_backoff" => probe[t][Key(t)].read

C16_Witness ==
    /\ Returned("t1")
    /\ Len(sheets) = 1
    /\ outcome["t1"][sheets[1]] = "open_failed"
    /\ calls.kind = "worksheet"
    /\ now = Epoch + REQUEST_DELAY

\* C17: when the credentials cannot be loaded (malformed environment value, or
\* no environment value and a missing or invalid credentials.json) or cannot be
\* authorised, GoogleSheetsClient() raises and self.client is None; without a
\* returned client no pass ever starts.
C17_AuthFailureIsFatal ==
    /\ obj.ctor # "not_called" =>
          LET loaded == \/ obj.env = "valid"
                        \/ obj.env = "unset" /\ obj.file = "valid"
          IN  (~loaded \/ obj.auth = "raises")
              => /\ obj.ctor = "raised"
                 /\ obj.client = None
    /\ obj.ctor # "returned" =>
          \A t \in Threads : pc[t] = "idle" /\ passes[t] = 0
    /\ obj.ctor = "returned" => obj.client = Handle

C17_Witness ==
    /\ obj.ctor = "raised"
    /\ obj.env = "valid"
    /\ obj.auth = "raises"
    /\ obj.client = None

DenominatorOf(metric_key) ==
    CASE metric_key \in {"onsite_vip_percentage", "remote_vip_percentage",
                         "total_vip_percentage", "membership_attachment_rate"} -> "total_deals"
      [] metric_key = "lead_conversion_rate" -> "leads"
      [] metric_key = "opportunity_conversion_rate" -> "qualified_leads"
      [] metric_key = "close_rate" -> "opportunities"
      [] OTHER -> "none"

\* C19: for every configured formula with a division and every data dictionary
\* whose denominator field is 0 or missing, calculate_metric returns 0.0 (not
\* None, and nothing is raised).
C19_ZeroDenominatorGivesZero ==
    (mc.valid /\ DenominatorOf(mc.key) # "none") =>
        (mc.data[DenominatorOf(mc.key)] \in {Missing, PyInt(0), PyFloat(0, 1)}
         => mc.ret = PyFloat(0, 1))

C19_Witness ==
    /\ mc.valid
    /\ mc.key = "total_vip_percentage"
    /\ mc.data["total_deals"] = Missing
    /\ mc.data["onsite_vip"] = PyStr
    /\ mc.ret = PyFloat(0, 1)

\* the data dictionary without the keys the formula of the metric does not name
OwnFields(data_dict, metric_key) ==
    [f \in Fields |->
        IF f \in variables(METRICS_CONFIG[metric_key].formula) THEN data_dict[f] ELSE Missing]

\* one of the eval calls that calculate_metric makes for the metric raises
EvaluationFails(data_dict, metric_key) ==
    IsRaised(try_calculate_metric(data_dict, metric_key))

\* C20: calculate_all_metrics_for_category never ends with an exception; when it
\* has returned, metrics holds every metric of the category and no other, a
\* metric whose evaluation failed has the value None, and every other metric has
\* the value its formula has on its own fields alone, whatever the fields of the
\* failed metrics hold.
C20_FailedMetricIsIsolated ==
    /\ cam.state # "raised"
    /\ cam.state = "returned" =>
          \A m \in MetricKeys :
              IF METRICS_CONFIG[m].category = cam.category
              THEN /\ cam.metrics[m] # Unset
                   /\ EvaluationFails(cam.data, m) => cam.metrics[m] = None
                   /\ ~EvaluationFails(cam.data, m) =>
                         /\ cam.metrics[m] # None
                         /\ cam.metrics[m] = calculate_metric(OwnFields(cam.data, m), m)
              ELSE cam.metrics[m] = Unset

C20_Witness ==
    /\ cam.state = "returned"
    /\ cam.category = "vip"
    /\ cam.data["onsite_vip"] = PyStr
    /\ cam.data["total_deals"] = PyFloat(MaxField, 1)
    /\ cam.data["remote_vip"] = PyFloat(1, 1)
    /\ cam.metrics["onsite_vip_percentage"] = None
    /\ cam.metrics["total_vip_percentage"] = None
    /\ cam.metrics["remote_vip_percentage"] = PyFloat(100, MaxField)
    /\ cam.metrics["total_deals"] = PyFloat(MaxField, 1)

\* a category parser has returned from a batched read that gave blocks
Parsed(parser) == pz.calls = 1 /\ pz.parser = parser /\ pz.payload # EmptyBatch

\* the raw_data fields of each category
RawFields(parser) ==
    CASE parser = "vip" -> {"total_deals", "onsite_vip_deals", "remote_vip_deals"}
      [] parser = "membership" -> {"total_deals", "membership_1", "membership_2"}
      [] parser = "velocity" -> {VelocityColumns[i].key \o "_avg" : i \in 1..Len(VelocityColumns)}
      [] OTHER -> {TableColumns[i].key : i \in 1..Len(TableColumns)}

\* C21: whatever blocks the batched read returns, raw_data of the record a
\* category parser returns has every field of its category, and for VIP,
\* Membership and Velocity the value is a number.
C21_RawDataHasEveryField ==
    \A parser \in {"vip", "membership", "velocity", "funnel"} :
        Parsed(parser) =>
            \A field \in RawFields(parser) :
                /\ field \in DictKeys(pz.record.raw_data)
                /\ parser # "funnel" => IsNumber(DictValue(pz.record.raw_data, field))

\* the rows of a funnel payload that are well formed: they hold every
\* projected column and their first cell is a date
WellFormedRows(blocks) ==
    SelectSeq(ConcatRanges(blocks), LAMBDA row : Len(row) > LastTableColumn /\ ~SkipRow(row))

CreatedDates(table_data) ==
    {DictValue(table_data[i], "created_date") : i \in 1..Len(table_data)}

\* the header cells that hold a YY-MM token naming a month
MonthCells(header_row) ==
    {i \in 1..Len(header_row) :
        /\ DatePatternSearch(header_row[i]) # 0
        /\ ValidDate(MatchGroups(header_row[i]).year, MatchGroups(header_row[i]).month)}

MonthOfCell(cell) == strftime_BY(MatchGroups(cell).year, MatchGroups(cell).month)

\* C22: a malformed cell or row does not abort the parse: every well-formed
\* row of a funnel payload is in table_data, and find_month_columns_batch returns
\* a map that holds the month of every header cell with a month token, whatever
\* the other rows and cells of the payload hold.
C22_MalformedInputIsLocal ==
    /\ Parsed("funnel") =>
          \A i \in 1..Len(WellFormedRows(pz.payload.blocks)) :
              WellFormedRows(pz.payload.blocks)[i][1] \in CreatedDates(pz.record.table_data)
    /\ (pz.calls = 1 /\ pz.parser = "month_columns") =>
          /\ ~pz.record.raised
          /\ \A i \in MonthCells(pz.payload) :
                 MonthOfCell(pz.payload[i]) \in DictKeys(pz.record.month_columns)

\* the month columns of a payload whose header holds a month token and whose
\* total count, the cell below the header, is greater than 0
CountedColumns(blocks) ==
    {c \in 0..((Len(blocks) \div 4) - 1) :
        /\ MonthCells(<<HeaderValue(blocks[4 * c + 1])>>) # {}
        /\ Positive(extract_cell_value_FirstCell(<<blocks[4 * c + 2]>>))}

NewestFirst(monthly_data) ==
    \A i, j \in 1..Len(monthly_data) :
        i < j => DateKey(monthly_data[i].key) > DateKey(monthly_data[j].key)

\* C23: monthly_data of the VIP and the Membership parser holds exactly the
\* months whose header cell has a YY-MM token and whose total count is greater
\* than 0, each with its total count, newest month first, and raw_data is the
\* first entry.
C23_MonthlyDataIsTheCountedMonths ==
    \A parser \in {"vip", "membership"} :
        Parsed(parser) =>
            LET blocks == pz.payload.blocks
                monthly_data == pz.record.monthly_data
            IN  /\ DictKeys(monthly_data)
                     = {MonthOfCell(HeaderValue(blocks[4 * c + 1])) : c \in CountedColumns(blocks)}
                /\ \A c \in CountedColumns(blocks) :
                       \E i \in 1..Len(monthly_data) :
                           /\ monthly_data[i].key = MonthOfCell(HeaderValue(blocks[4 * c + 1]))
                           /\ Positive(DictValue(monthly_data[i].val, "total_deals"))
                /\ NewestFirst(monthly_data)
                /\ monthly_data # <<>> => pz.record.raw_data = monthly_data[1].val

\* the spreadsheet letters of a 0-based column index: A..Z, AA, AB, ...
RECURSIVE SpreadsheetLetters(_)
SpreadsheetLetters(i) ==
    IF i < 26 THEN ColumnLetters[i + 1]
    ELSE SpreadsheetLetters((i \div 26) - 1) \o ColumnLetters[(i % 26) + 1]

\* C24: find_month_columns_batch returns a map in which every header cell at
\* index i that holds a token YY-MM of a month has its label "<Month> 20YY" as
\* a key, with the spreadsheet letters of i as the value.
C24_MonthColumnsOfEveryHeaderCell ==
    (pz.calls = 1 /\ pz.parser = "month_columns") =>
        /\ ~pz.record.raised
        /\ \A i \in MonthCells(pz.payload) :
               /\ MonthOfCell(pz.payload[i]) \in DictKeys(pz.record.month_columns)
               /\ DictValue(pz.record.month_columns, MonthOfCell(pz.payload[i]))
                     = SpreadsheetLetters(i - 1)

\* the rows of a funnel payload that are not dropped: at least the minimum
\* number of cells, and a first cell that is a date
KeptRows(blocks) ==
    SelectSeq(ConcatRanges(blocks), LAMBDA row : Len(row) >= MinRowLength /\ ~SkipRow(row))

\* C25: table_data of the funnel parser is the rows of all ranges in request
\* order without the rows that are dropped (too few cells, a header keyword in
\* the first cell, a first cell shorter than 8 characters or without a digit),
\* and raw_data is the last of them.
C25_TableDataIsTheKeptRows ==
    Parsed("funnel") =>
        LET kept == KeptRows(pz.payload.blocks)
            table_data == pz.record.table_data
        IN  /\ Len(table_data) = Len(kept)
            /\ \A i \in 1..Len(kept) : DictValue(table_data[i], "created_date") = kept[i][1]
            /\ kept # <<>> => pz.record.raw_data = table_data[Len(table_data)]

\* the rows of a velocity payload
AllValues(payload) == IF payload.blocks # <<>> THEN payload.blocks[1] ELSE <<>>

\* the weeks of weekly_data in which the metric is greater than 0
Contributors(weekly_data, metric) ==
    {i \in 1..Len(weekly_data) : Positive(DictValue(weekly_data[i], metric))}

RECURSIVE SumOver(_, _, _)
SumOver(S, weekly_data, metric) ==
    IF S = {} THEN 0
    ELSE LET i == CHOOSE x \in S : TRUE
         IN  DictValue(weekly_data[i], metric).n + SumOver(S \ {i}, weekly_data, metric)

\* the cohorts the parser has detected that have a row below them
CohortsWithData(all_values) ==
    SelectSeq(WeeklyCohorts(all_values, 0), LAMBDA cohort : cohort.row_idx + 1 < Len(all_values))

\* C26: every detected cohort with a data row is in weekly_data, in order and
\* also when its six metrics are 0, and each averaged metric of raw_data is the
\* mean of the metric over the weeks where it is greater than 0, or 0 when
\* there is no such week.
C26_AveragesSkipZeroWeeks ==
    Parsed("velocity") =>
        LET weekly_data == pz.record.weekly_data
            cohorts == CohortsWithData(AllValues(pz.payload))
        IN  /\ Len(weekly_data) = Len(cohorts)
            /\ \A i \in 1..Len(cohorts) :
                   DictValue(weekly_data[i], "week_range") = cohorts[i].date_range
            /\ \A c \in 1..Len(VelocityColumns) :
                   LET metric == VelocityColumns[c].key
                       S == Contributors(weekly_data, metric)
                   IN  (metric \o "_avg") \in DictKeys(pz.record.raw_data) =>
                           LET avg == DictValue(pz.record.raw_data, metric \o "_avg")
                           IN  IF S = {} THEN avg.n = 0
                               ELSE avg.n * Cardinality(S)
                                       = avg.d * SumOver(S, weekly_data, metric)

C26_Witness ==
    /\ Parsed("velocity")
    /\ Len(pz.record.weekly_data) = 2
    /\ AllValues(pz.payload) = <<<<WeekStart>>, SomeValues, <<WeekMay>>, ZeroValues>>
    /\ DictValue(pz.record.weekly_data[2], "lead_to_sql") = PyFloat(0, 1)
    /\ DictValue(pz.record.raw_data, "lead_to_sql_avg") = PyFloat(4, 1)
    /\ DictValue(pz.record.raw_data, "ms_to_1st_meeting_avg") = PyFloat(1200, 1)

\* the cell holds two dates dd/mm/yyyy joined by " - "
IsDateAt(s, i) ==
    /\ Len(s) >= i + 9
    /\ \A k \in {0, 1, 3, 4, 6, 7, 8, 9} : IsDigit(s[i + k])
    /\ s[i + 2] = "/" /\ s[i + 5] = "/"

IsWeekCell(s) == Len(s) = 23 /\ IsDateAt(s, 1) /\ SubSeq(s, 11, 13) = <<" ", "-", " ">> /\ IsDateAt(s, 14)

\* the first day of the week as year * 10000 + month * 100 + day
WeekFirstDay(s) ==
    DigitsValue(SubSeq(s, 7, 10)) * 10000 + DigitsValue(SubSeq(s, 4, 5)) * 100
        + DigitsValue(SubSeq(s, 1, 2))

\* the configured start date 28/04/2025
StartDay == 20250428

\* the week cells of the rows that have a row below them
RECURSIVE WeeksWithData(_, _)
WeeksWithData(all_values, row_idx) ==
    IF row_idx + 1 >= Len(all_values) THEN {}
    ELSE {strip(all_values[row_idx + 1][c]) : c \in 1..Len(all_values[row_idx + 1])}
         \cup WeeksWithData(all_values, row_idx + 1)

\* C27: the velocity parser takes a cell as a week cohort exactly when it holds
\* two dates joined by " - " and the week starts on 28/04/2025 or later, in any
\* year: the weeks of weekly_data are those cells that have a row below them.
C27_CohortsAreTheWeeksFromStartDate ==
    Parsed("velocity") =>
        {DictValue(pz.record.weekly_data[i], "week_range") : i \in 1..Len(pz.record.weekly_data)}
            = {s \in WeeksWithData(AllValues(pz.payload), 0) :
                  IsWeekCell(s) /\ WeekFirstDay(s) >= StartDay}

\* the sheets of all_sheets_data that are of the category and report the month
SheetsWithMonth(all_sheets_data, category, month) ==
    {i \in 1..Len(all_sheets_data) :
        /\ all_sheets_data[i].val.config.category = category
        /\ month \in DictKeys(all_sheets_data[i].val.monthly_data)}

\* the sum of a count of the month over a set of sheets (counts are whole numbers)
RECURSIVE SumOfSheets(_, _, _, _)
SumOfSheets(S, all_sheets_data, month, key) ==
    IF S = {} THEN 0
    ELSE LET i == CHOOSE x \in S : TRUE
         IN  DictValue(DictValue(all_sheets_data[i].val.monthly_data, month), key).n
             + SumOfSheets(S \ {i}, all_sheets_data, month, key)

\* the number v is the fraction n / d
IsFraction(v, n, d) == IsNumber(v) /\ v.d # 0 /\ v.n * d = n * v.d

\* v is part / total x 100, and 0 when total is 0
IsPercentageOf(v, part, total) ==
    IF total = 0 THEN IsFraction(v, 0, 1) ELSE IsFraction(v, part * 100, total)

CountKeys(category) == IF category = "vip" THEN VipKeys ELSE MembershipKeys

\* the percentages of a category: the key and the counts in its numerator
PercentageKeys(category) ==
    IF category = "vip"
    THEN {<<"onsite_vip_percentage", {"onsite_vip_deals"}>>,
          <<"remote_vip_percentage", {"remote_vip_deals"}>>,
          <<"total_vip_percentage", {"onsite_vip_deals", "remote_vip_deals"}>>}
    ELSE {<<"membership_attachment_rate", {"membership_1", "membership_2"}>>}

RECURSIVE SumOfKeys(_, _, _, _)
SumOfKeys(K, S, all_sheets_data, month) ==
    IF K = {} THEN 0
    ELSE LET k == CHOOSE x \in K : TRUE
         IN  SumOfSheets(S, all_sheets_data, month, k)
             + SumOfKeys(K \ {k}, S, all_sheets_data, month)

\* C28: after prepare_dashboard_data, for vip and membership, the regional
\* monthly_data has exactly the months some country reports; each regional count
\* of a month is the sum of that count over the countries that report the month,
\* and each regional percentage is the summed numerator / the summed total x 100
\* (0 when the summed total is 0).
C28_RegionalMonthsAreSums ==
    ag.valid =>
        \A category \in {"vip", "membership"} :
            LET regional == ag.dashboard_data[category].regional.monthly_data
            IN  \A i \in 1..Len(Months) :
                    LET month == Months[i]
                        S == SheetsWithMonth(ag.all_sheets_data, category, month)
                        total == SumOfSheets(S, ag.all_sheets_data, month, "total_deals")
                    IN  /\ month \in DictKeys(regional) <=> S # {}
                        /\ S # {} =>
                              /\ \A k \in 1..Len(CountKeys(category)) :
                                    IsFraction(DictValue(DictValue(regional, month),
                                                         CountKeys(category)[k]),
                                               SumOfSheets(S, ag.all_sheets_data, month,
                                                           CountKeys(category)[k]), 1)
                              /\ \A p \in PercentageKeys(category) :
                                    IsPercentageOf(DictValue(DictValue(regional, month), p[1]),
                                                   SumOfKeys(p[2], S, ag.all_sheets_data, month),
                                                   total)

\* two countries report a month with different onsite percentages, and the
\* regional percentage of the month is not the average of the two
C28_Witness ==
    /\ ag.valid
    /\ \E i \in 1..Len(Months) :
          LET month == Months[i]
              S == SheetsWithMonth(ag.all_sheets_data, "vip", month)
              countries == ag.dashboard_data.vip.countries
              regional == ag.dashboard_data.vip.regional.monthly_data
          IN  /\ Cardinality(S) = 2
              /\ Len(countries) = 2
              /\ month \in DictKeys(regional)
              /\ LET a == DictValue(DictValue(countries[1].val.monthly_data, month),
                                    "onsite_vip_percentage")
                     b == DictValue(DictValue(countries[2].val.monthly_data, month),
                                    "onsite_vip_percentage")
                     r == DictValue(DictValue(regional, month), "onsite_vip_percentage")
                 IN  /\ a.n * b.d # b.n * a.d
                     /\ ~IsFraction(Divide(Plus(a, b), PyInt(2)), r.n, r.d)
                     /\ IsFraction(r, 7 * 100, 40)

\* the weekly records of the velocity sheets, as (sheet, record) positions
VelocityRecords(all_sheets_data) ==
    UNION {{<<i, j>> : j \in 1..Len(all_sheets_data[i].val.weekly_data)} :
              i \in {x \in 1..Len(all_sheets_data) :
                        all_sheets_data[x].val.config.category = "velocity"}}

RecordAt(all_sheets_data, p) == all_sheets_data[p[1]].val.weekly_data[p[2]]

\* the records with a week_range label
GroupOf(all_sheets_data, week_range) ==
    {p \in VelocityRecords(all_sheets_data) :
        DictValue(RecordAt(all_sheets_data, p), "week_range") = week_range}

\* the sum of a metric over a set of records (metric values are whole numbers)
RECURSIVE SumOfRecords(_, _, _)
SumOfRecords(G, all_sheets_data, metric) ==
    IF G = {} THEN 0
    ELSE LET p == CHOOSE x \in G : TRUE
         IN  DictValue(RecordAt(all_sheets_data, p), metric).n
             + SumOfRecords(G \ {p}, all_sheets_data, metric)

RECURSIVE Factorial(_)
Factorial(n) == IF n <= 1 THEN 1 ELSE n * Factorial(n - 1)

\* the sum over the labels of Common x (the mean of the metric in the label's group)
RECURSIVE SumOfMeans(_, _, _, _)
SumOfMeans(L, all_sheets_data, metric, Common) ==
    IF L = {} THEN 0
    ELSE LET l == CHOOSE x \in L : TRUE
             G == GroupOf(all_sheets_data, l)
         IN  SumOfRecords(G, all_sheets_data, metric) * (Common \div Cardinality(G))
             + SumOfMeans(L \ {l}, all_sheets_data, metric, Common)

WeekLabels(all_sheets_data) ==
    {DictValue(RecordAt(all_sheets_data, p), "week_range") :
        p \in VelocityRecords(all_sheets_data)}

VelocityKeys == {VelocityColumns[i].key : i \in 1..Len(VelocityColumns)}

\* C29: the regional weekly_data has one record per week_range label of the
\* countries' weekly records; each of its metrics is the mean of that metric over
\* the records with the label, and each regional averaged metric is the mean of
\* those per-week means.
C29_RegionalVelocityIsMeanOfWeekMeans ==
    ag.valid =>
        LET input == ag.all_sheets_data
            regional == ag.dashboard_data.velocity.regional
            labels == WeekLabels(input)
            Common == Factorial(Cardinality(VelocityRecords(input)))
        IN  /\ Len(regional.weekly_data) = Cardinality(labels)
            /\ \A w \in 1..Len(regional.weekly_data) :
                  LET week == regional.weekly_data[w]
                      G == GroupOf(input, DictValue(week, "week_range"))
                  IN  /\ G # {}
                      /\ \A metric \in VelocityKeys :
                            IsFraction(DictValue(week, metric),
                                       SumOfRecords(G, input, metric), Cardinality(G))
            /\ \A w1, w2 \in 1..Len(regional.weekly_data) :
                  w1 # w2 => DictValue(regional.weekly_data[w1], "week_range")
                             # DictValue(regional.weekly_data[w2], "week_range")
            /\ labels # {} =>
                  \A metric \in VelocityKeys :
                      /\ metric \o "_avg" \in DictKeys(regional.metrics)
                      /\ IsFraction(DictValue(regional.metrics, metric \o "_avg"),
                                    SumOfMeans(labels, input, metric, Common),
                                    Common * Cardinality(labels))

\* a week that two countries report and a week that one reports, where the mean
\* of the week means differs from the mean over all records
C29_Witness ==
    /\ ag.valid
    /\ LET input == ag.all_sheets_data
           all == VelocityRecords(input)
           v == DictValue(ag.dashboard_data.velocity.regional.metrics, "lead_to_sql_avg")
       IN  /\ Cardinality(WeekLabels(input)) = 2
           /\ \E l \in WeekLabels(input) :
                 \E p, q \in GroupOf(input, l) : p[1] # q[1]
           /\ ~IsFraction(v, SumOfRecords(all, input, "lead_to_sql"), Cardinality(all))

\* the ranges a ranges_dict lists for a data type
RangesOf(ranges_dict, data_type) == DictValue(ranges_dict, data_type)

\* C31: a call of batch_get_all_sheet_data that reads asks for every range of
\* the call in each batched read it makes, and its result holds, for each data
\* type and position i, the block read for the i-th range of that type.
C31_BlocksInRequestOrder ==
    bg.valid =>
        /\ \A k \in 1..Len(bg.requests) : bg.requests[k] = FlattenRanges(bg.ranges_dict)
        /\ bg.ends = "read" =>
              /\ DictKeys(bg.result) = DictKeys(bg.ranges_dict)
              /\ \A data_type \in DictKeys(bg.ranges_dict) :
                    LET ranges == RangesOf(bg.ranges_dict, data_type)
                        blocks == DictValue(bg.result, data_type)
                    IN  /\ Len(blocks) = Len(ranges)
                        /\ \A i \in 1..Len(ranges) : blocks[i] = CellsOf(ranges[i])

\* a read of two data types, the second with two different ranges
C31_Witness ==
    /\ bg.valid
    /\ bg.ends = "read"
    /\ Len(bg.requests) = 1
    /\ Len(bg.ranges_dict) = 2
    /\ Len(bg.ranges_dict[1].val) >= 1
    /\ Len(bg.ranges_dict[2].val) = 2
    /\ bg.ranges_dict[2].val[1] # bg.ranges_dict[2].val[2]
    /\ bg.ranges_dict[1].val[1] # bg.ranges_dict[2].val[1]

\* C32: prepare_dashboard_data leaves the records it is given unchanged: after
\* the call every raw_data, monthly_data, weekly_data and table_data of
\* all_sheets_data is what it was before the call.
C32_AggregationLeavesInputUnchanged ==
    ag.valid => ag.after = ag.all_sheets_data

\* C33: get_sheet_data returns a mapping for every outcome, never None.
C33_GetSheetDataReturnsMapping ==
    gs.valid => gs.ret # None

\* C34: a VIP or Membership parse requests the header and data cells of the 24
\* columns V through AT: the first range requested is the header V1 and the
\* last column requested is AT.
C34_MonthParsersRequestVToAT ==
    (pz.calls = 1 /\ pz.parser \in {"vip", "membership"}) =>
        LET month_ranges == MonthRangesOf(pz.parser, pz.sheet_key)
        IN  /\ Len(month_ranges) = 24 * 4
            /\ month_ranges[1] = "V1"
            /\ \E k \in 1..Len(month_ranges) : month_ranges[k] = "V2"
            /\ RequestedColumns \cap {"V", "AT"} = {"V", "AT"}

\* C35: when refresh_data has cleared the cache while a pass was in progress
\* and that pass has returned, the cache holds no entry of data that the pass
\* had read from the source before the clear.
C35_NoEntryFetchedBeforeClear ==
    (rf.returned /\ ~rf.quiet /\ pc["t1"] = "idle" /\ passes["t1"] = rf.pass + 1) =>
        \A k \in rf.fetched : cache[CacheKeyOf(k)] = Absent

\* the first day of a week_range label 'dd/mm/yyyy - dd/mm/yyyy', as yyyymmdd
WeekStartDay(week_range) ==
    DigitsValue(SubSeq(week_range, 7, 10)) * 10000
        + DigitsValue(SubSeq(week_range, 4, 5)) * 100
        + DigitsValue(SubSeq(week_range, 1, 2))

\* C36: the regional velocity weekly_data is ordered by date, the most recent
\* week first: no record starts later than its element 0, and each record
\* starts later than the one after it.
C36_RegionalWeeksNewestFirst ==
    ag.valid =>
        LET weekly_data == ag.dashboard_data.velocity.regional.weekly_data
            Day(w) == WeekStartDay(DictValue(weekly_data[w], "week_range"))
        IN  \A w \in 1..Len(weekly_data) :
                /\ Day(1) >= Day(w)
                /\ w < Len(weekly_data) => Day(w) > Day(w + 1)

\* the positions of the vip sheets of all_sheets_data whose raw_data has a
\* total count greater than 0
VipWithDeals(all_sheets_data) ==
    {i \in 1..Len(all_sheets_data) :
        /\ all_sheets_data[i].val.config.category = "vip"
        /\ Positive(DictGetOr(all_sheets_data[i].val.raw_data, "total_deals", PyInt(0)))}

\* C37: for a vip sheet whose raw_data (the newest month) has a total count
\* greater than 0, each percentage among the country's metrics equals the
\* percentage of the same key in the country's monthly_data for that month,
\* and onsite_vip_percentage is onsite_vip_deals / total_deals x 100.
C37_VipMetricsAgreeWithMonth ==
    ag.valid =>
        \A i \in VipWithDeals(ag.all_sheets_data) :
            LET sheet == ag.all_sheets_data[i]
                raw_data == sheet.val.raw_data
                entry == DictValue(ag.dashboard_data.vip.countries,
                                   CountryOf(sheet.key, sheet.val.config))
                month == entry.monthly_data[1].val
                total == DictValue(raw_data, "total_deals")
                onsite == DictValue(raw_data, "onsite_vip_deals")
            IN  /\ \A m \in {"onsite_vip_percentage", "remote_vip_percentage",
                             "total_vip_percentage"} :
                      IsFraction(entry.metrics[m], DictValue(month, m).n, DictValue(month, m).d)
                /\ IsFraction(entry.metrics["onsite_vip_percentage"],
                              onsite.n * 100 * total.d, total.n * onsite.d)

\* every source of the pass that thread t has returned ended with live data or
\* with a strict cache hit
AllSucceeded(t) == \A k \in Configured : outcome[t][k] \in {"live", "hit"}

\* C38, as claimed: after a pass in which every source ended with live or
\* freshly cached data, get_last_error_info reports error_type None and
\* is_rate_limit False.
C38_NoErrorAfterSuccessfulPass ==
    \A t \in Threads :
        (Returned(t) /\ AllSucceeded(t)) =>
            /\ get_last_error_info(last_error).error_type = "None"
            /\ ~get_last_error_info(last_error).is_rate_limit

\* C38, amended: after such a pass get_last_error_info reports RATE_LIMIT with
\* is_rate_limit True when a read of the pass was rate limited and retried, and
\* error_type None with is_rate_limit False when no read of the pass raised; it
\* never reports another class.
C38_RetriedRateLimitStaysRecorded ==
    \A t \in Threads :
        (Returned(t) /\ AllSucceeded(t)) =>
            LET info == get_last_error_info(last_error)
            IN  /\ pass_fail[t] \in {"None", "RATE_LIMIT"}
                /\ info.error_type = (IF pass_fail[t] = "RATE_LIMIT" THEN "RATE_LIMIT" ELSE "None")
                /\ info.is_rate_limit = (pass_fail[t] = "RATE_LIMIT")

\* a pass over all the sources, each of them live, one after a retried rate limit
C38_Witness ==
    /\ Returned("t1")
    /\ AllSucceeded("t1")
    /\ \A k \in Configured : outcome["t1"][k] = "live"
    /\ Len(sheets) > 1
    /\ pass_fail["t1"] = "RATE_LIMIT"
    /\ get_last_error_info(last_error).is_rate_limit

\* C39: once a session has made its first run(), the scheduler has been started
\* with the callback that clears the file cache and is running, and the runs of
\* the sessions have started it once.
C39_FirstRunStartsScheduler ==
    (\E x \in Sessions : sch.session[x].runs >= 1) =>
        /\ sch.instance
        /\ sch.is_running
        /\ sch.refresh_callback = "clear_all_cache"
        /\ Cardinality(AliveLoops(sch)) = 1
        /\ sch.starts >= 1

\* C40: whatever start_scheduler and stop_scheduler calls were made on the
\* scheduler, at most one loop thread has not left run_scheduler.
C40_AtMostOneLoopThread ==
    Cardinality(AliveLoops(sch)) <= 1


====
